---- MODULE Spec2Model ----
(***************************************************************************)
(* Coastline BBS: the per-connection session state machine (login, menu    *)
(* loop, command dispatch, teardown), the status-bar Manager's ticker      *)
(* goroutine and the TerminalWriter's status-bar repaint path.             *)
(*                                                                         *)
(* Bytes are ASCII codes.  A logical key is a record [name, ch]: name is   *)
(* the string readKey returns for a named key ("enter", "up", ...) or      *)
(* "char" for a single-character string whose character is ch.             *)
(***************************************************************************)
EXTENDS Integers, Sequences, FiniteSets, TLC

VARIABLES
    cfg,                \* which parsed Config the server was started with
    termKind,           \* "ssh" or "local": dynamic type of Session.terminal
    prefilledUsername,  \* Session.prefilledUsername ("" for local)
    pc,                 \* position of Session.Run
    user,               \* Session.user (NoUser = nil)
    authenticated,      \* Session.authenticated
    attempts,           \* loop counter of handleLogin
    currentMenu,        \* Session.currentMenu
    menuHistory,        \* Session.menuHistory
    selectedIndex,      \* Session.selectedIndex (0-based)
    shown,              \* rows drawn by the last RenderConfigMenu
    menuShown,          \* has displayMenu ever run in this session
    lastKey,            \* logical key returned by the last readKey of menuLoop
    running,            \* command handler executeCommand is running
    notice,             \* notice on the screen since the last clear
    invalidNotices,     \* number of "Invalid username or password." notices
    touches,            \* number of UpdateUserLastCall calls of this session
    rawMode,            \* LocalTerminal.rawMode
    termClosed,         \* Terminal.Close has been called
    teardown,           \* operations Run performed on its way out
    exitReason,         \* why Run returned
    navDepth,           \* submenu entries not yet undone by a back press
    entries,            \* submenu entries so far (counted up to MaxCount)
    mismatches,         \* login attempts whose credentials matched no active user
    \* ---- status bar Manager and TerminalWriter (one session) ----
    gpc,                \* position of the goroutine started by Manager.Start
    isInitialized,      \* Manager.isInitialized
    updateTicker,       \* Manager.updateTicker: "nil" or "set"
    tickerActive,       \* the time.Ticker the goroutine created is running
    tickPending,        \* a tick is buffered in that ticker's channel C
    updateChan,         \* updates buffered in updateChan (capacity 1)
    spc,                \* position of the caller inside Manager.Stop
    stopCalled,         \* a call of Manager.Stop has returned
    sentAfterStop,      \* timer updates sent after a Stop (saturating)
    wpc,                \* position of the main loop inside TerminalWriter.Write
    wclear,             \* the data of the Write in progress contains a clear
    bpc,                \* positions of the delayed repaint goroutines
    sleepLeft,          \* what is left of their time.Sleep (clock units)
    mutexHolder,        \* holder of statusBarRedrawMutex (NoOne if free)
    termLock,           \* holder of the term.Terminal's own lock
    pendingRedraw,      \* TerminalWriter.pendingRedraw
    lastStatusBarRedraw,\* TerminalWriter.lastStatusBarRedraw (clock units)
    now,                \* wall clock (units of 50 ms)
    repaints,           \* status-bar repaints written so far (saturating)
    owed,               \* time by which the oldest unanswered clear wants a repaint
    \* ---- the terminal screen of one session ----
    height,             \* terminal height reported by Terminal.Size
    installed,          \* the status bar has been initialised and not cleared
    scr,                \* cursor row, saved row, scroll bottom, last row's owner
    \* ---- one call of Pager.Display inside a session ----
    ppc,                \* position inside Pager.Display
    lines,              \* len(lines)
    currentPage,        \* currentPage (0-based)
    totalPages,         \* totalPages (1 on the single-page path)
    pgRows,             \* rows the last page display wrote text to
    pgEmitted,          \* numbers of the input lines the last display wrote
    pagesSeen,          \* page numbers displayed so far
    pgLastBytes,        \* bytes of the last key the Pager read
    pgExit,             \* how Display returned
    pgNexts,            \* SPACE/ENTER/DOWN presses so far, NoRun after another key
    \* ---- password authentication of one SSH connection ----
    cbUser,             \* conn.User()
    cbPassword,         \* password of the last passwordCallback call
    cbResult,           \* its result: "none", "ok" or "fail"
    cbErr,              \* text of the error it returned ("" if none)
    cbTries,            \* passwordCallback calls so far
    cbSession,          \* prefilledUsername of the session created, or "none"
    \* ---- the users table and the sessions logging in against it ----
    dbRows,             \* users table: id -> row, or NoRow
    dbpc,               \* position of each session inside handleLogin
    dbName,             \* prefilledUsername of each session
    dbSeen,             \* TotalCalls of the User each session got from GetUser
    dbOp,               \* the last UpdateUser or DeleteUser call and its result
    dbOps,              \* number of UpdateUser and DeleteUser calls so far
    \* ---- one Terminal from creation to the calls of Close ----
    tKind,              \* "local" or "ssh"
    tIsTerminal,        \* term.IsTerminal(stdin)
    tRawMode,           \* LocalTerminal.rawMode
    tOldState,          \* LocalTerminal.oldState: "nil" or "set"
    tTerminal,          \* LocalTerminal.terminal: "nil" or "set"
    tPrompt,            \* prompt of the term.Terminal
    tTty,               \* mode of the tty: "cooked" or "raw"
    tRestores,          \* calls of term.Restore so far
    chSentClose,        \* the SSH channel has sent its close message
    chCloseMsgs,        \* close messages put on the wire so far
    tCloses,            \* callers that have called Terminal.Close, in order
    \* ---- one call of base.Module.Execute ----
    mpc,                \* position inside Module.Execute
    mOptions,           \* len(m.options)
    mSelected,          \* m.selectedIndex
    mLastKey,           \* key returned by the last ReadKey of the loop
    mExecuted,          \* number of the option whose Execute ran last (0: none)
    mResult,            \* what that Execute returned: "none", "true", "false"
    mCursor,            \* last cursor sequence written: "none", "hide", "show"
    mExit,              \* the path on which Execute returned
    \* ---- rendering of one menu row ----
    hpc,                \* position inside renderMenu
    hlClean,            \* len of the item's description
    hlLongest,          \* len of the longest description of the menu
    hlHotkey,           \* the hotkey occurs in the description
    hlAccent,           \* the accent colour of the scheme is a known colour
    hlSelected,         \* the row is the selected one
    hlText,             \* len(item.Description) handed to HighlightSelection
    hlWidth,            \* maxWidth
    hlResult,           \* len of the row produced, NoRow_ if none, Panic on panic
    \* ---- one call of readKey ----
    kpc,                \* "idle" before the call, "done" after it
    kKind,              \* "ssh" or "local": which readKey is called
    kReads,             \* results of the terminal.Read calls it can make
    kResult,            \* what the call returned
    \* ---- the accept loop of main ----
    lnClosed,           \* listener.Close has been called
    aExited,            \* the process has exited
    aHandled,           \* connections handed to HandleConnection
    aLogged,            \* "Failed to accept connection" lines logged
    aAfterClose,        \* calls of Accept that returned after the close
    \* ---- one StatusBar ----
    sbWidth,            \* sb.width
    sbUserLen,          \* len(sb.username)
    sbSysLen,           \* len(sb.systemName)
    sbActive,           \* sb.isActive
    sbRenders           \* the calls of Render so far: isActive, len of result

sessVars == <<cfg, termKind, prefilledUsername, pc, user, authenticated,
              attempts, currentMenu, menuHistory, selectedIndex, shown,
              menuShown, lastKey, running, notice, invalidNotices,
              touches, rawMode, termClosed, teardown, exitReason, navDepth,
              entries, mismatches>>

mgrVars == <<gpc, isInitialized, updateTicker, tickerActive, tickPending,
             updateChan, spc, stopCalled, sentAfterStop>>

wrVars == <<wpc, wclear, bpc, sleepLeft, mutexHolder, termLock, pendingRedraw,
            lastStatusBarRedraw, now, repaints, owed>>

scrVars == <<height, installed, scr>>

pgVars == <<ppc, lines, currentPage, totalPages, pgRows, pgEmitted, pagesSeen,
            pgLastBytes, pgExit, pgNexts>>

cbVars == <<cbUser, cbPassword, cbResult, cbErr, cbTries, cbSession>>

dbVars == <<dbRows, dbpc, dbName, dbSeen, dbOp, dbOps>>

tmVars == <<tKind, tIsTerminal, tRawMode, tOldState, tTerminal, tPrompt, tTty,
            tRestores, chSentClose, chCloseMsgs, tCloses>>

modVars == <<mpc, mOptions, mSelected, mLastKey, mExecuted, mResult, mCursor,
             mExit>>

hlVars == <<hpc, hlClean, hlLongest, hlHotkey, hlAccent, hlSelected, hlText,
            hlWidth, hlResult>>

keyVars == <<kpc, kKind, kReads, kResult>>

accVars == <<lnClosed, aExited, aHandled, aLogged, aAfterClose>>

sbVars == <<sbWidth, sbUserLen, sbSysLen, sbActive, sbRenders>>

auxVars == <<keyVars, accVars, sbVars>>

extVars == <<scrVars, pgVars, cbVars, dbVars, tmVars, modVars, hlVars,
             auxVars>>

\* What the actions of one component leave alone
nonScrVars == <<sessVars, mgrVars, wrVars, pgVars, cbVars, dbVars, tmVars,
                modVars, hlVars,
                auxVars>>
nonPgVars == <<sessVars, mgrVars, wrVars, scrVars, cbVars, dbVars, tmVars,
               modVars, hlVars,
                auxVars>>
nonCbVars == <<sessVars, mgrVars, wrVars, scrVars, pgVars, dbVars, tmVars,
               modVars, hlVars,
                auxVars>>
nonDbVars == <<sessVars, mgrVars, wrVars, scrVars, pgVars, cbVars, tmVars,
               modVars, hlVars,
                auxVars>>
nonTmVars == <<sessVars, mgrVars, wrVars, scrVars, pgVars, cbVars, dbVars,
               modVars, hlVars,
                auxVars>>
nonModVars == <<sessVars, mgrVars, wrVars, scrVars, pgVars, cbVars, dbVars,
                tmVars, hlVars,
                auxVars>>
nonHlVars == <<sessVars, mgrVars, wrVars, scrVars, pgVars, cbVars, dbVars,
               tmVars, modVars,
                auxVars>>
nonKeyVars == <<sessVars, mgrVars, wrVars, scrVars, pgVars, cbVars, dbVars,
                tmVars, modVars, hlVars, accVars, sbVars>>
nonAccVars == <<sessVars, mgrVars, wrVars, scrVars, pgVars, cbVars, dbVars,
                tmVars, modVars, hlVars, keyVars, sbVars>>
nonSbVars == <<sessVars, mgrVars, wrVars, scrVars, pgVars, cbVars, dbVars,
               tmVars, modVars, hlVars, keyVars, accVars>>

vars == <<sessVars, mgrVars, wrVars, extVars>>

----------------------------------------------------------------------------
(* Configuration: bbs.menus                                                *)

NoUser == [username |-> "", password |-> "", access_level |-> 0 - 1]

Item(id, cmd, lvl, hk, kids) ==
    [id |-> id, command |-> cmd, access_level |-> lvl, hotkey |-> hk,
     children |-> kids]

\* The configuration shipped with the repository.
ShippedMenus ==
    << [id |-> "main", submenu |-> <<
          Item("bulletins", "bulletins", 0, 98, 0),
          Item("messages", "messages", 0, 109, 0),
          Item("files", "files", 0, 102, 0),
          Item("games", "games", 0, 103, 0),
          Item("users", "users", 0, 117, 0),
          Item("sysop", "sysop_menu", 255, 115, 0),
          Item("goodbye", "goodbye", 0, 113, 0) >>],
       [id |-> "sysop_menu", submenu |-> <<
          Item("create_user", "create_user", 255, 99, 0),
          Item("edit_user", "edit_user", 255, 101, 0),
          Item("delete_user", "delete_user", 255, 100, 0),
          Item("view_users", "view_users", 255, 118, 0),
          Item("change_password", "change_password", 255, 112, 0),
          Item("toggle_user", "toggle_user", 255, 116, 0),
          Item("system_stats", "system_stats", 255, 115, 0),
          Item("bulletin_management", "bulletin_management", 255, 98, 0) >>] >>

\* A configuration that uses what config.MenuItem allows beyond the shipped
\* one: items with children (Submenu), a second level of navigation,
\* sysop commands on items whose own access_level is 0, and an item whose
\* command is the id of another menu.
NestedMenus ==
    << [id |-> "main", submenu |-> <<
          Item("bulletins", "bulletins", 0, 98, 0),
          Item("files", "files", 0, 102, 2),
          Item("admin", "sysop_menu", 0, 97, 0),
          Item("sysop", "sysop_menu", 255, 115, 0),
          Item("goodbye", "goodbye", 0, 120, 0) >>],
       [id |-> "files", submenu |-> <<
          Item("uploads", "uploads", 0, 117, 1),
          Item("readme", "readme", 0, 0, 0),
          Item("newuser", "create_user", 0, 99, 0),
          Item("sysop", "sysop_menu", 255, 115, 0),
          Item("logout", "logout", 0, 108, 0),
          Item("home", "main", 0, 109, 0) >>],
       [id |-> "sysop_menu", submenu |-> <<
          Item("create_user", "create_user", 255, 99, 0),
          Item("view_users", "view_users", 255, 118, 0),
          Item("system_stats", "system_stats", 255, 115, 0) >>] >>

Configs == {"shipped", "nested"}

Menus(c) == IF c = "shipped" THEN ShippedMenus ELSE NestedMenus

SysopCommands == {"create_user", "edit_user", "delete_user", "view_users",
                  "change_password", "toggle_user", "system_stats",
                  "bulletin_management"}

----------------------------------------------------------------------------
(* Store: the users table                                                  *)

Users == << [username |-> "sysop", password |-> "password",
             access_level |-> 255, is_active |-> TRUE],
            [username |-> "guest", password |-> "guest",
             access_level |-> 10, is_active |-> TRUE],
            [username |-> "bob", password |-> "bob",
             access_level |-> 10, is_active |-> FALSE] >>

Usernames == {"", "sysop", "guest", "bob", "ghost"}
Passwords == {"", "password", "guest", "bob", "wrong"}

\* DB.GetUser: SELECT ... WHERE username = ? AND is_active = 1; NoUser stands
\* for the sql.ErrNoRows error.
GetUser(name) ==
    LET hits == SelectSeq(Users, LAMBDA u : u.username = name /\ u.is_active)
    IN IF Len(hits) = 0 THEN NoUser
       ELSE [username |-> hits[1].username, password |-> hits[1].password,
             access_level |-> hits[1].access_level]

----------------------------------------------------------------------------
(* Key decoding                                                            *)

ReadErr == 0 - 1    \* terminal.Read returned an error
NoByte == 0         \* terminal.Read returned n = 0

Key(n, c) == [name |-> n, ch |-> c]

\* readKeyLocal applied to the results bs of the successive terminal.Read
\* calls.  used is the number of reads the call makes; a call whose reads
\* are not all available yet blocks.
readKeyLocal(bs) ==
    LET b == bs[1] IN
    IF b = ReadErr THEN [key |-> Key("", 0), used |-> 1, err |-> TRUE]
    ELSE IF b = NoByte THEN [key |-> Key("", 0), used |-> 1, err |-> FALSE]
    ELSE IF b \in {13, 10} THEN [key |-> Key("enter", 0), used |-> 1, err |-> FALSE]
    ELSE IF b = 27 THEN
        IF Len(bs) < 2 THEN [key |-> Key("", 0), used |-> 2, err |-> FALSE]
        ELSE IF bs[2] \in {ReadErr, NoByte}
             THEN [key |-> Key("escape", 0), used |-> 2, err |-> FALSE]
        ELSE IF bs[2] = 91 THEN
            IF Len(bs) < 3 THEN [key |-> Key("", 0), used |-> 3, err |-> FALSE]
            ELSE IF bs[3] \in {ReadErr, NoByte}
                 THEN [key |-> Key("escape", 0), used |-> 3, err |-> FALSE]
            ELSE IF bs[3] = 65 THEN [key |-> Key("up", 0), used |-> 3, err |-> FALSE]
            ELSE IF bs[3] = 66 THEN [key |-> Key("down", 0), used |-> 3, err |-> FALSE]
            ELSE IF bs[3] = 67 THEN [key |-> Key("right", 0), used |-> 3, err |-> FALSE]
            ELSE IF bs[3] = 68 THEN [key |-> Key("left", 0), used |-> 3, err |-> FALSE]
            ELSE [key |-> Key("escape", 0), used |-> 3, err |-> FALSE]
        ELSE [key |-> Key("escape", 0), used |-> 2, err |-> FALSE]
    ELSE IF b \in {113, 81} THEN [key |-> Key("quit", 0), used |-> 1, err |-> FALSE]
    ELSE IF b \in {103, 71} THEN [key |-> Key("goodbye", 0), used |-> 1, err |-> FALSE]
    ELSE IF b = 3 THEN [key |-> Key("goodbye", 0), used |-> 1, err |-> FALSE]
    ELSE [key |-> Key("char", b), used |-> 1, err |-> FALSE]

\* readKeySSH: the same decoding, written out a second time in the source.
readKeySSH(bs) ==
    LET b == bs[1] IN
    IF b = ReadErr THEN [key |-> Key("", 0), used |-> 1, err |-> TRUE]
    ELSE IF b = NoByte THEN [key |-> Key("", 0), used |-> 1, err |-> FALSE]
    ELSE IF b \in {13, 10} THEN [key |-> Key("enter", 0), used |-> 1, err |-> FALSE]
    ELSE IF b = 27 THEN
        IF Len(bs) < 2 THEN [key |-> Key("", 0), used |-> 2, err |-> FALSE]
        ELSE IF bs[2] \in {ReadErr, NoByte}
             THEN [key |-> Key("escape", 0), used |-> 2, err |-> FALSE]
        ELSE IF bs[2] = 91 THEN
            IF Len(bs) < 3 THEN [key |-> Key("", 0), used |-> 3, err |-> FALSE]
            ELSE IF bs[3] \in {ReadErr, NoByte}
                 THEN [key |-> Key("escape", 0), used |-> 3, err |-> FALSE]
            ELSE IF bs[3] = 65 THEN [key |-> Key("up", 0), used |-> 3, err |-> FALSE]
            ELSE IF bs[3] = 66 THEN [key |-> Key("down", 0), used |-> 3, err |-> FALSE]
            ELSE IF bs[3] = 67 THEN [key |-> Key("right", 0), used |-> 3, err |-> FALSE]
            ELSE IF bs[3] = 68 THEN [key |-> Key("left", 0), used |-> 3, err |-> FALSE]
            ELSE [key |-> Key("escape", 0), used |-> 3, err |-> FALSE]
        ELSE [key |-> Key("escape", 0), used |-> 2, err |-> FALSE]
    ELSE IF b \in {113, 81} THEN [key |-> Key("quit", 0), used |-> 1, err |-> FALSE]
    ELSE IF b \in {103, 71} THEN [key |-> Key("goodbye", 0), used |-> 1, err |-> FALSE]
    ELSE IF b = 3 THEN [key |-> Key("goodbye", 0), used |-> 1, err |-> FALSE]
    ELSE [key |-> Key("char", b), used |-> 1, err |-> FALSE]

\* a readKey that hands on the failed look-ahead read instead of the key
readKey_LookaheadFails(kind, bs) ==
    IF bs[1] = 27 /\ Len(bs) >= 2 /\ bs[2] \in {ReadErr, NoByte}
    THEN [key |-> Key("", 0), used |-> 2, err |-> bs[2] = ReadErr]
    ELSE IF kind = "ssh" THEN readKeySSH(bs) ELSE readKeyLocal(bs)

readKey(kind, bs) == IF kind = "ssh" THEN readKeySSH(bs) ELSE readKeyLocal(bs)

\* strings.ToLower on a one-character string
ToLower(c) == IF c \in 65..90 THEN c + 32 ELSE c

\* Byte sequences a terminal can deliver to one readKey call.
KeySeqs ==
    { <<13>>, <<10>>, <<3>>, <<NoByte>>, <<ReadErr>>,
      <<27, 91, 65>>, <<27, 91, 66>>, <<27, 91, 67>>, <<27, 91, 68>>,
      <<27, 91, 90>>, <<27, 120>>, <<27, ReadErr>>, <<27, 91, ReadErr>>,
      <<113>>, <<81>>, <<103>>, <<71>>,
      <<115>>, <<83>>, <<98>>, <<102>>, <<97>>, <<117>>, <<99>>, <<120>>,
      <<108>>, <<109>>, <<118>>, <<122>>, <<49>> }

----------------------------------------------------------------------------
(* Menu resolution and rendering                                           *)

Min(S) == CHOOSE x \in S : \A y \in S : x <= y

\* menuLoop, "Find current menu": index of the first top-level menu whose ID
\* is id, 0 when there is none (currentMenu == nil).
FindMenu(c, id) ==
    LET hits == {i \in 1..Len(Menus(c)) : Menus(c)[i].id = id}
    IN IF hits = {} THEN 0 ELSE Min(hits)

Submenu(c, id) ==
    IF FindMenu(c, id) = 0 THEN <<>> ELSE Menus(c)[FindMenu(c, id)].submenu

\* menuLoop, "Build accessible menu items"
AccessibleItems_NoFilter(c, id, u) == Submenu(c, id)

AccessibleItems(c, id, u) ==
    SelectSeq(Submenu(c, id),
              LAMBDA it : u = NoUser \/ it.access_level <= u.access_level)

\* MenuRenderer.RenderConfigMenu: the rows it hands to renderMenu
RenderConfigMenu_NoFilter(items, userAccessLevel) == items

RenderConfigMenu(items, userAccessLevel) ==
    SelectSeq(items, LAMBDA it : it.access_level <= userAccessLevel)

\* Session.displayMenu
displayMenu(c, id, u) ==
    RenderConfigMenu(Submenu(c, id),
                     IF u = NoUser THEN 0 ELSE u.access_level)

----------------------------------------------------------------------------
(* Command dispatch                                                        *)

\* Outcome of one pass through the switch of menuLoop: the new navigation
\* state, how the loop goes on (how), the handler that ran (ran), the notice
\* written (note) and whether a submenu was entered (push).
Res(cur, hist, sel, how, ran, note, push) ==
    [cur |-> cur, hist |-> hist, sel |-> sel, how |-> how, ran |-> ran,
     note |-> note, push |-> push]

Last(s) == s[Len(s)]
Front(s) == SubSeq(s, 1, Len(s) - 1)

\* executeCommand: the check made before sysop_menu and every sysop command
SysopAccessDenied_NilOnly(u) == u = NoUser

SysopAccessDenied(u) == u = NoUser \/ u.access_level < 255

\* Session.executeCommand
\* an unknown command that makes executeCommand return false
NotImplemented_Exits(cur, hist, sel) ==
    Res(cur, hist, sel, "exit", "none", "not_implemented", FALSE)

\* executeCommand, default branch, item without Submenu: "Command '%s' not
\* implemented yet.", waitForKey, return true
NotImplemented(cur, hist, sel) ==
    Res(cur, hist, sel, "waitKey", "none", "not_implemented", FALSE)

\* the command names executeCommand's switch has a case for
KnownCommands ==
    {"bulletins", "sysop_menu", "messages", "goodbye", "logout"}
        \cup SysopCommands

executeCommand(item, u, cur, hist, sel) ==
    IF item.command = "bulletins"
    THEN Res(cur, hist, sel, "module", "bulletins", "none", FALSE)
    ELSE IF item.command = "sysop_menu"
    THEN IF SysopAccessDenied(u)
         THEN Res(cur, hist, sel, "waitKey", "none", "access_denied", FALSE)
         ELSE Res("sysop_menu", Append(hist, cur), 0, "reloop", "none", "none", TRUE)
    ELSE IF item.command \in SysopCommands
    THEN IF SysopAccessDenied(u)
         THEN Res(cur, hist, sel, "waitKey", "none", "access_denied", FALSE)
         ELSE Res(cur, hist, sel, "module", item.command, "none", FALSE)
    ELSE IF item.command = "messages"
    THEN Res(cur, hist, sel, "waitKey", "messages", "coming_soon", FALSE)
    ELSE IF item.command \in {"goodbye", "logout"}
    THEN Res(cur, hist, sel, "exit", "none", "none", FALSE)
    ELSE IF item.children > 0
    THEN Res(item.id, Append(hist, cur), 0, "reloop", "none", "none", TRUE)
    ELSE NotImplemented(cur, hist, sel)

\* menuLoop, case "up"
MoveUp_NoWrap(sel, n) == sel - 1

MoveUp(sel, n) == IF sel - 1 < 0 THEN n - 1 ELSE sel - 1

\* menuLoop, case "down"
MoveDown(sel, n) == IF sel + 1 >= n THEN 0 ELSE sel + 1

\* menuLoop, case "quit", "q", "Q"
Back_NoPop(cur, hist, sel) ==
    IF cur = "main"
    THEN Res(cur, hist, sel, "continue", "none", "none", FALSE)
    ELSE IF Len(hist) > 0
         THEN Res(Last(hist), hist, 0, "reloop", "none", "none", FALSE)
         ELSE Res("main", hist, 0, "reloop", "none", "none", FALSE)

Back_Ignored(cur, hist, sel) ==
    Res(cur, hist, sel, "continue", "none", "none", FALSE)

Back(cur, hist, sel) ==
    IF cur = "main"
    THEN Res(cur, hist, sel, "continue", "none", "none", FALSE)
    ELSE IF Len(hist) > 0
         THEN Res(Last(hist), Front(hist), 0, "reloop", "none", "none", FALSE)
         ELSE Res("main", hist, 0, "reloop", "none", "none", FALSE)

\* menuLoop: the hotkey search of the default case
HotkeyMatches(key, items) ==
    {i \in 1..Len(items) :
        /\ key.name = "char"
        /\ items[i].hotkey # 0
        /\ ToLower(items[i].hotkey) = ToLower(key.ch)}

\* menuLoop: the switch on the key read, with items = accessibleItems
\* a goodbye key that is read and ignored
Goodbye_Ignored(cur, hist, sel) ==
    Res(cur, hist, sel, "continue", "none", "none", FALSE)

\* case "goodbye", "g", "G": the goodbye message, then return
Goodbye(cur, hist, sel) ==
    Res(cur, hist, sel, "goodbye", "none", "goodbye", FALSE)

menuLoop(key, items, u, cur, hist, sel) ==
    IF key.name = "up"
    THEN Res(cur, hist, MoveUp(sel, Len(items)), "redraw", "none", "none", FALSE)
    ELSE IF key.name = "down"
    THEN Res(cur, hist, MoveDown(sel, Len(items)), "redraw", "none", "none", FALSE)
    ELSE IF key.name = "enter"
    THEN executeCommand(items[sel + 1], u, cur, hist, sel)
    ELSE IF key.name = "quit" \/ (key.name = "char" /\ key.ch \in {113, 81})
    THEN Back(cur, hist, sel)
    ELSE IF key.name = "goodbye" \/ (key.name = "char" /\ key.ch \in {103, 71})
    THEN Goodbye(cur, hist, sel)
    ELSE IF HotkeyMatches(key, items) # {}
    THEN executeCommand(items[Min(HotkeyMatches(key, items))], u, cur, hist, sel)
    ELSE Res(cur, hist, sel, "continue", "none", "none", FALSE)

----------------------------------------------------------------------------
(* Session.Run                                                             *)

NoKey == Key("", 0)

\* Submenu entries are counted up to MaxCount.
MaxCount == 2

\* Bounds of the status-bar models
MaxBg == 2          \* delayed repaint goroutines alive at a time
MaxTime == 4        \* clock units the model follows
MaxSent == 2        \* sentAfterStop saturates here
MaxRepaints == 3    \* repaints saturates here

\* Goroutines that take locks: the session's main loop and the delayed
\* repaint goroutines.
NoOne == 0 - 1
MainLoop == 0
BgIds == 1..MaxBg

\* 100 * time.Millisecond, in clock units of 50 ms
DebounceUnits == 2

\* NewManager: the Manager before Start
MgrIdle ==
    /\ gpc = "idle" /\ isInitialized = FALSE /\ updateTicker = "nil"
    /\ tickerActive = FALSE /\ tickPending = FALSE /\ updateChan = 0
    /\ spc = "out" /\ stopCalled = FALSE /\ sentAfterStop = 0

\* No clear is waiting for a repaint
NoDeadline == 0 - 1

\* NewSession: the TerminalWriter with lastStatusBarRedraw the zero time
WriterIdle ==
    /\ wpc = "idle" /\ wclear = FALSE
    /\ bpc = [i \in BgIds |-> "none"] /\ sleepLeft = [i \in BgIds |-> 0]
    /\ mutexHolder = NoOne /\ termLock = NoOne /\ pendingRedraw = FALSE
    /\ lastStatusBarRedraw = 0 - DebounceUnits /\ now = 0 /\ repaints = 0
    /\ owed = NoDeadline

\* Terminal heights the models range over
MaxHeight == 16
Heights == 14..MaxHeight

\* A terminal of height h right after the connection: cursor at the top,
\* no scroll region, nothing on the last row
FreshScreen(h) == [row |-> 1, saved |-> 1, bottom |-> h, bar |-> "blank"]

ScreenIdle ==
    /\ height = 14 /\ installed = FALSE /\ scr = FreshScreen(14)

\* No Pager has been created
PagerIdle ==
    /\ ppc = "idle" /\ lines = 0 /\ currentPage = 0 /\ totalPages = 0
    /\ pgRows = {} /\ pgEmitted = {} /\ pagesSeen = {}
    /\ pgLastBytes = <<>> /\ pgExit = "none" /\ pgNexts = 0

\* No SSH connection is authenticating
AuthIdle ==
    /\ cbUser = "" /\ cbPassword = "" /\ cbResult = "none" /\ cbTries = 0
    /\ cbSession = "none" /\ cbErr = ""

\* Sessions that log in against the same database
MaxSessions == 3
Sessions == 1..MaxSessions

\* Number of UpdateUser and DeleteUser calls the store model follows
MaxOps == 2

NoRow == [username |-> "", is_active |-> FALSE, total_calls |-> -1]

\* ids the callers of UpdateUser and DeleteUser pass: the AUTOINCREMENT ids
\* of the rows of Users and one id no row has
Ids == 1..(Len(Users) + 1)

\* The users table holding the rows of Users; total_calls has its DEFAULT 0
InitialRows ==
    [id \in Ids |->
        IF id \in DOMAIN Users
        THEN [username |-> Users[id].username,
              is_active |-> Users[id].is_active,
              total_calls |-> 0]
        ELSE NoRow]

NoOp == [op |-> "none", id |-> 0, existed |-> FALSE, err |-> "nil"]

\* Nobody has used the database yet
StoreIdle ==
    /\ dbRows = InitialRows
    /\ dbpc = [s \in Sessions |-> "start"]
    /\ dbName = [s \in Sessions |-> ""]
    /\ dbSeen = [s \in Sessions |-> 0]
    /\ dbOp = NoOp /\ dbOps = 0

\* No Terminal has been created
TermIdle ==
    /\ tKind = "none" /\ tIsTerminal = FALSE /\ tRawMode = FALSE
    /\ tOldState = "nil" /\ tTerminal = "nil" /\ tPrompt = ""
    /\ tTty = "cooked" /\ tRestores = 0
    /\ chSentClose = FALSE /\ chCloseMsgs = 0 /\ tCloses = <<>>

\* No module is running
ModuleIdle ==
    /\ mpc = "idle" /\ mOptions = 0 /\ mSelected = 0 /\ mLastKey = NoKey
    /\ mExecuted = 0 /\ mResult = "none" /\ mCursor = "none"
    /\ mExit = "none"

\* HighlightSelection has produced no row, or has panicked
NoRow_ == 0 - 1
Panic == 0 - 2

\* No menu row is being rendered
HighlightIdle ==
    /\ hpc = "idle" /\ hlClean = 0 /\ hlLongest = 0 /\ hlHotkey = FALSE
    /\ hlAccent = FALSE /\ hlSelected = FALSE /\ hlText = 0 /\ hlWidth = 0
    /\ hlResult = NoRow_

\* The components that are not part of the session, the Manager, the
\* writer, the screen, the Pager and the authentication
\* No readKey call is modelled on its own
KeyIdle == kpc = "idle" /\ kKind = "ssh" /\ kReads = <<>> /\ kResult = NoKey

\* The accept loop has just started
AcceptIdle ==
    /\ lnClosed = FALSE /\ aExited = FALSE /\ aHandled = 0 /\ aLogged = 0
    /\ aAfterClose = 0

\* No StatusBar is modelled on its own
BarIdle ==
    /\ sbWidth = 0 /\ sbUserLen = 0 /\ sbSysLen = 0 /\ sbActive = TRUE
    /\ sbRenders = <<>>

AuxIdle == KeyIdle /\ AcceptIdle /\ BarIdle

RestIdle == StoreIdle /\ TermIdle /\ ModuleIdle /\ HighlightIdle /\ AuxIdle

\* Values of the variables of the other components while one runs alone
ExtIdle == ScreenIdle /\ PagerIdle /\ AuthIdle /\ RestIdle

\* Server.NewSession followed by the start of Session.Run
Init ==
    /\ cfg \in Configs
    /\ termKind \in {"ssh", "local"}
    /\ prefilledUsername \in
          IF termKind = "ssh" THEN {"sysop", "guest", "bob", "ghost"} ELSE {""}
    /\ pc = "start"
    /\ user = NoUser
    /\ authenticated = FALSE
    /\ attempts = 0
    /\ currentMenu = "main"
    /\ menuHistory = <<>>
    /\ selectedIndex = 0
    /\ shown = <<>>
    /\ menuShown = FALSE
    /\ lastKey = NoKey
    /\ running = "none"
    /\ notice = "none"
    /\ invalidNotices = 0
    /\ touches = 0
    /\ rawMode = FALSE
    /\ termClosed = FALSE
    /\ teardown = {}
    /\ exitReason = "none"
    /\ navDepth = 0
    /\ entries = 0
    /\ mismatches = 0
    /\ MgrIdle
    /\ WriterIdle
    /\ ExtIdle

\* The deferred function of Run: s.terminal.Close().  LocalTerminal.Close is
\* Restore; SSHTerminal.Close closes the channel.
RunReturn(reason) ==
    /\ pc' = "done"
    /\ exitReason' = reason
    /\ termClosed' = TRUE
    /\ rawMode' = IF termKind = "local" THEN FALSE ELSE rawMode
    /\ teardown' = IF termKind = "local" THEN {"close", "restore"} ELSE {"close"}

\* Top of the for loop of menuLoop: resolve the menu named cur, build the
\* accessible items, draw the menu (which clears the content area).
MenuLoopTop(cur) ==
    /\ running' = "none"
    /\ IF FindMenu(cfg, cur) = 0
       THEN /\ RunReturn("menu_not_found")
            /\ notice' = "menu_not_found"
            /\ UNCHANGED <<shown, menuShown>>
       ELSE IF Len(AccessibleItems(cfg, cur, user)) = 0
       THEN /\ RunReturn("no_items")
            /\ notice' = "no_items"
            /\ UNCHANGED <<shown, menuShown>>
       ELSE /\ pc' = "menu"
            /\ shown' = displayMenu(cfg, cur, user)
            /\ menuShown' = TRUE
            /\ notice' = "none"
            /\ UNCHANGED <<exitReason, termClosed, rawMode, teardown>>

\* Run: displayWelcome
Welcome ==
    /\ pc = "start"
    /\ pc' = "login"
    /\ UNCHANGED <<cfg, termKind, prefilledUsername, user, authenticated,
                   attempts, currentMenu, menuHistory, selectedIndex, shown,
                   menuShown, lastKey, running, notice,
                   invalidNotices, touches, rawMode, termClosed, teardown,
                   exitReason, navDepth, entries>>
    /\ UNCHANGED mismatches
    /\ UNCHANGED <<mgrVars, wrVars, extVars>>

\* handleLogin, "Validate credentials": the negation of
\* err != nil || user.Password != password
CredentialsOK_NoCheck(u, password) == TRUE

CredentialsOK(u, password) == u # NoUser /\ u.password = password

\* handleLogin, SSH branch: the transport already bound a username
\* UpdateUserLastCall left out
UpdateUserLastCall_Skipped(calls) == calls

\* DB.UpdateUserLastCall, counted per session
UpdateUserLastCall(calls) == calls + 1

\* a loop that grants a fourth attempt
AttemptsLeft_OneMore(n) == n < 4

\* for attempts := 0; attempts < 3; attempts++
AttemptsLeft(n) == n < 3

\* The store has no active user with this name and this password
IsMismatch(username, password) ==
    /\ username # "" /\ password # ""
    /\ ~\E i \in DOMAIN Users :
          /\ Users[i].username = username /\ Users[i].password = password
          /\ Users[i].is_active

\* a lookup whose error is not looked at
GetUserFailed_Ignored(u) == FALSE

\* handleLogin: err != nil after s.db.GetUser(s.prefilledUsername)
GetUserFailed(u) == u = NoUser

LoginPrefilled ==
    /\ pc = "login"
    /\ prefilledUsername # ""
    /\ LET u == GetUser(prefilledUsername) IN
       IF GetUserFailed(u)
       THEN /\ notice' = "error_retrieving_user"
            /\ RunReturn("login_failed")
            /\ UNCHANGED <<user, authenticated, touches>>
       ELSE /\ user' = u
            /\ authenticated' = TRUE
            /\ touches' = UpdateUserLastCall(touches)
            /\ notice' = "welcome_back"
            /\ pc' = "post_login"
            /\ UNCHANGED <<exitReason, termClosed, rawMode, teardown>>
    /\ UNCHANGED <<cfg, termKind, prefilledUsername, attempts, currentMenu,
                   menuHistory, selectedIndex, shown, menuShown, lastKey,
                   running, invalidNotices, navDepth, entries>>
    /\ UNCHANGED mismatches
    /\ UNCHANGED <<mgrVars, wrVars, extVars>>

\* handleLogin, local branch: one iteration of the attempts loop with the
\* username and password typed; the loop's exit after the third iteration
\* ("Too many failed attempts. Access denied.") belongs to that iteration.
LoginAttempt(username, password) ==
    /\ pc = "login"
    /\ prefilledUsername = ""
    /\ AttemptsLeft(attempts)
    /\ mismatches' = IF IsMismatch(username, password) THEN mismatches + 1
                     ELSE mismatches
    /\ LET u == GetUser(username)
           skipped == username = "" \/ password = ""
           ok == ~skipped /\ CredentialsOK(u, password)
       IN IF ok
          THEN /\ user' = u
               /\ authenticated' = TRUE
               /\ touches' = UpdateUserLastCall(touches)
               /\ notice' = "welcome"
               /\ pc' = "post_login"
               /\ attempts' = 0
               /\ UNCHANGED <<invalidNotices, exitReason, termClosed,
                              rawMode, teardown>>
          ELSE /\ attempts' = attempts + 1
               /\ invalidNotices' =
                     IF skipped THEN invalidNotices ELSE invalidNotices + 1
               /\ IF AttemptsLeft(attempts + 1)
                  THEN /\ notice' = IF skipped THEN notice ELSE "invalid_login"
                       /\ UNCHANGED <<pc, exitReason, termClosed, rawMode,
                                      teardown>>
                  ELSE /\ notice' = "access_denied_login"
                       /\ RunReturn("login_failed")
               /\ UNCHANGED <<user, authenticated, touches>>
    /\ UNCHANGED <<cfg, termKind, prefilledUsername, currentMenu,
                   menuHistory, selectedIndex, shown, menuShown, lastKey,
                   running, navDepth, entries>>
    /\ UNCHANGED <<mgrVars, wrVars, extVars>>

\* handleLogin, local branch: readInput fails (read error or Ctrl-C)
LoginReadError ==
    /\ pc = "login"
    /\ prefilledUsername = ""
    /\ RunReturn("login_failed")
    /\ UNCHANGED <<cfg, termKind, prefilledUsername, user, authenticated,
                   attempts, currentMenu, menuHistory, selectedIndex, shown,
                   menuShown, lastKey, running, notice,
                   invalidNotices, touches, navDepth, entries>>
    /\ UNCHANGED mismatches
    /\ UNCHANGED <<mgrVars, wrVars, extVars>>

\* Run: terminal.MakeRaw, then the bulletins module is started.  isTerminal
\* is what term.IsTerminal and term.MakeRaw answer for the local tty.
PostLogin(isTerminal) ==
    /\ pc = "post_login"
    /\ rawMode' = (termKind = "local" /\ isTerminal)
    /\ pc' = "bulletins"
    /\ UNCHANGED <<cfg, termKind, prefilledUsername, user, authenticated,
                   attempts, currentMenu, menuHistory, selectedIndex, shown,
                   menuShown, lastKey, running, notice,
                   invalidNotices, touches, termClosed, teardown, exitReason,
                   navDepth, entries>>
    /\ UNCHANGED mismatches
    /\ UNCHANGED <<mgrVars, wrVars, extVars>>

\* Run: bulletinsModule.Execute returns; currentMenu = "main"; menuLoop starts
BulletinsReturn ==
    /\ pc = "bulletins"
    /\ currentMenu' = "main"
    /\ MenuLoopTop("main")
    /\ UNCHANGED <<cfg, termKind, prefilledUsername, user, authenticated,
                   attempts, menuHistory, selectedIndex, lastKey,
                   invalidNotices, touches, navDepth, entries>>
    /\ UNCHANGED mismatches
    /\ UNCHANGED <<mgrVars, wrVars, extVars>>

\* menuLoop: one readKey and the switch on its result, up to the next
\* readKey (or the return of menuLoop).
MenuKey(bs) ==
    /\ pc = "menu"
    /\ LET r == readKey(termKind, bs)
           items == AccessibleItems(cfg, currentMenu, user)
           res == menuLoop(r.key, items, user, currentMenu, menuHistory,
                           selectedIndex)
       IN /\ r.used = Len(bs)
          /\ IF r.err
             THEN /\ RunReturn("read_error")
                  /\ lastKey' = NoKey
                  /\ UNCHANGED <<currentMenu, menuHistory, selectedIndex,
                                 shown, menuShown, running, notice, navDepth,
                                 entries>>
             ELSE /\ lastKey' = r.key
                  /\ currentMenu' = res.cur
                  /\ menuHistory' = res.hist
                  /\ selectedIndex' = res.sel
                  /\ navDepth' = IF res.push THEN navDepth + 1
                                 ELSE IF r.key.name = "quit" /\ navDepth > 0
                                      THEN navDepth - 1
                                      ELSE navDepth
                  /\ entries' = IF res.push /\ entries < MaxCount
                                THEN entries + 1 ELSE entries
                  /\ CASE res.how = "redraw" ->
                            /\ shown' = displayMenu(cfg, currentMenu, user)
                            /\ UNCHANGED <<pc, menuShown, running, notice,
                                           exitReason, termClosed, rawMode,
                                           teardown>>
                       [] res.how = "continue" ->
                            UNCHANGED <<pc, shown, menuShown, running, notice,
                                        exitReason, termClosed, rawMode,
                                        teardown>>
                       [] res.how = "reloop" -> MenuLoopTop(res.cur)
                       [] res.how \in {"module", "waitKey"} ->
                            /\ pc' = res.how
                            /\ running' = res.ran
                            /\ notice' = res.note
                            /\ UNCHANGED <<shown, menuShown, exitReason,
                                           termClosed, rawMode, teardown>>
                       [] res.how = "goodbye" ->
                            /\ RunReturn("goodbye")
                            /\ notice' = "goodbye"
                            /\ UNCHANGED <<shown, menuShown, running>>
                       [] res.how = "exit" ->
                            /\ RunReturn("command_exit")
                            /\ UNCHANGED <<shown, menuShown, running, notice>>
    /\ UNCHANGED <<cfg, termKind, prefilledUsername, user, authenticated,
                   attempts, invalidNotices, touches>>
    /\ UNCHANGED mismatches
    /\ UNCHANGED <<mgrVars, wrVars, extVars>>

\* executeCommand: the module or sysop handler it started returns, and
\* menuLoop redisplays the menu.
ModuleReturn ==
    /\ pc = "module"
    /\ MenuLoopTop(currentMenu)
    /\ UNCHANGED <<cfg, termKind, prefilledUsername, user, authenticated,
                   attempts, currentMenu, menuHistory, selectedIndex, lastKey,
                   invalidNotices, touches, navDepth, entries>>
    /\ UNCHANGED mismatches
    /\ UNCHANGED <<mgrVars, wrVars, extVars>>

\* waitForKey: ReadLine on an SSH terminal (returns at Enter or on an
\* error), one terminal.Read on a local one; then menuLoop redisplays.
WaitForKey(b) ==
    /\ pc = "waitKey"
    /\ termKind = "ssh" => b \in {13, ReadErr}
    /\ MenuLoopTop(currentMenu)
    /\ UNCHANGED <<cfg, termKind, prefilledUsername, user, authenticated,
                   attempts, currentMenu, menuHistory, selectedIndex, lastKey,
                   invalidNotices, touches, navDepth, entries>>
    /\ UNCHANGED mismatches
    /\ UNCHANGED <<mgrVars, wrVars, extVars>>

WaitBytes == {13, 32, 120, ReadErr}

Next ==
    \/ Welcome
    \/ LoginPrefilled
    \/ \E username \in Usernames, password \in Passwords :
          LoginAttempt(username, password)
    \/ LoginReadError
    \/ \E isTerminal \in BOOLEAN : PostLogin(isTerminal)
    \/ BulletinsReturn
    \/ \E bs \in KeySeqs : MenuKey(bs)
    \/ ModuleReturn
    \/ \E b \in WaitBytes : WaitForKey(b)

Spec == Init /\ [][Next]_vars

----------------------------------------------------------------------------
(* Properties of the session                                               *)

Level(u) == u.access_level

Visible(c, id, u) ==
    {i \in 1..Len(Submenu(c, id)) : Submenu(c, id)[i].access_level <= Level(u)}

Hidden(c, id, u) ==
    {i \in 1..Len(Submenu(c, id)) : Submenu(c, id)[i].access_level > Level(u)}

\* The character a logical key was typed as ("quit" and "goodbye" are what
\* readKey makes of q and g).
TypedChar(key) ==
    IF key.name = "char" THEN ToLower(key.ch)
    ELSE IF key.name = "quit" THEN 113
    ELSE IF key.name = "goodbye" THEN 103
    ELSE 0

\* C1: a menu has been displayed only in a session that holds a non-nil,
\* authenticated User which the Store returned for the name typed at the
\* local login or bound by the transport, after one successful login.
C1_MenuOnlyWhenAuthenticated ==
    menuShown =>
        /\ user # NoUser
        /\ authenticated
        /\ user = GetUser(user.username)
        /\ prefilledUsername # "" => user.username = prefilledUsername
        /\ touches = 1

C1_Witness ==
    /\ menuShown /\ pc = "menu" /\ termKind = "local"
    /\ user.username = "guest" /\ invalidNotices = 2

\* C2: every row of the menu on the screen has access_level <= the user's,
\* and the number of rows is the number of items of the current menu that
\* pass this filter.
C2_RenderedRowsFiltered ==
    pc = "menu" =>
        /\ \A i \in 1..Len(shown) : shown[i].access_level <= Level(user)
        /\ Len(shown) = Cardinality(Visible(cfg, currentMenu, user))

C2_Witness ==
    /\ pc = "menu" /\ Level(user) = 10 /\ currentMenu = "main"
    /\ Len(shown) < Len(Submenu(cfg, currentMenu))
    /\ lastKey.name = "down"

\* C3: a key press that is the hotkey of an item of the current menu whose
\* access_level exceeds the user's runs no command and leaves current menu,
\* menu history and selection as they were.
C3_HiddenHotkeyInert ==
    [][ ( /\ pc = "menu"
          /\ lastKey' # NoKey
          /\ \E i \in Hidden(cfg, currentMenu, user) :
                /\ Submenu(cfg, currentMenu)[i].hotkey # 0
                /\ ToLower(Submenu(cfg, currentMenu)[i].hotkey) = TypedChar(lastKey') )
        => ( /\ pc' = "menu"
             /\ running' = "none"
             /\ notice' = notice
             /\ UNCHANGED <<currentMenu, menuHistory, selectedIndex>> ) ]_vars

C3_Witness ==
    /\ pc = "menu" /\ Level(user) = 10 /\ currentMenu = "main"
    /\ lastKey = Key("char", 83)
    /\ \E i \in Hidden(cfg, currentMenu, user) :
          ToLower(Submenu(cfg, currentMenu)[i].hotkey) = TypedChar(lastKey)

\* C4: in a session whose user has access_level < 255 no sysop command
\* handler is ever running and sysop_menu is never the current menu.
C4_SysopGuarded ==
    Level(user) < 255 =>
        /\ running \notin SysopCommands
        /\ currentMenu # "sysop_menu"

C4_Witness ==
    /\ Level(user) = 10 /\ pc = "waitKey" /\ notice = "access_denied"
    /\ currentMenu = "files"

C6_BalancedNavigationReturns ==
    pc = "menu" =>
        /\ Len(menuHistory) = navDepth
        /\ navDepth = 0 => (currentMenu = "main" /\ menuHistory = <<>>)

C6_Witness ==
    /\ pc = "menu" /\ navDepth = 0 /\ entries = 2 /\ lastKey.name = "quit"
    /\ cfg = "nested"

\* C7: q or Q on "main" changes nothing; on any other menu it pops exactly
\* one id from the menu history and makes it the current menu.
C7_BackPopsOne ==
    [][ (pc = "menu" /\ lastKey'.name = "quit") =>
          IF currentMenu = "main"
          THEN /\ pc' = "menu"
               /\ UNCHANGED <<currentMenu, menuHistory, selectedIndex, shown>>
          ELSE /\ Len(menuHistory) > 0
               /\ currentMenu' = Last(menuHistory)
               /\ menuHistory' = Front(menuHistory)
               /\ pc' = "menu" ]_vars

C7_Witness ==
    /\ pc = "menu" /\ lastKey.name = "quit" /\ currentMenu = "files"
    /\ menuHistory = <<"main">>

\* The item Enter dispatches: the selected one of the accessible items
Selected == AccessibleItems(cfg, currentMenu, user)[selectedIndex + 1]

\* C26: pressing Enter on an item whose command is the id of an existing
\* menu navigates: the current menu id is appended to the menu history,
\* that menu becomes the current menu and the selection is reset to 0.
C26_MenuIdCommandNavigates ==
    [][ ( /\ pc = "menu"
          /\ lastKey'.name = "enter"
          /\ FindMenu(cfg, Selected.command) # 0 )
        => ( /\ currentMenu' = Selected.command
             /\ menuHistory' = Append(menuHistory, currentMenu)
             /\ selectedIndex' = 0 ) ]_vars

\* C27: the current menu is always one the menu loop finds among the
\* configured menus, and no session ends with "Menu not found".
C27_CurrentMenuResolvable ==
    /\ FindMenu(cfg, currentMenu) # 0
    /\ exitReason # "menu_not_found"

\* The character a key press was typed as, where the logical key tells:
\* "quit" is what readKey makes of q and Q
HotkeyTyped(key) ==
    IF key.name = "char" THEN ToLower(key.ch)
    ELSE IF key.name = "quit" THEN 113
    ELSE 0

\* C28: a key press that is the hotkey (in either case) of a visible item
\* of the current menu dispatches that item: the session continues as
\* executeCommand on that item prescribes.
C28_HotkeyDispatches ==
    [][ \A i \in Visible(cfg, currentMenu, user) :
          LET item == Submenu(cfg, currentMenu)[i]
              res == executeCommand(item, user, currentMenu, menuHistory,
                                    selectedIndex)
          IN ( /\ pc = "menu"
               /\ lastKey' # NoKey
               /\ item.hotkey # 0
               /\ ToLower(item.hotkey) = HotkeyTyped(lastKey') )
             => ( /\ currentMenu' = res.cur
                  /\ menuHistory' = res.hist
                  /\ res.how \in {"module", "waitKey"} =>
                        (pc' = res.how /\ running' = res.ran
                            /\ notice' = res.note)
                  /\ res.how = "exit" => exitReason' = "command_exit" ) ]_vars

C30_UnknownPrefilledTerminates ==
    (prefilledUsername # "" /\ GetUser(prefilledUsername) = NoUser) =>
        /\ ~menuShown /\ touches = 0
        /\ user = NoUser /\ ~authenticated
        /\ pc \in {"start", "login", "done"}
        /\ pc = "done" =>
              /\ exitReason = "login_failed"
              /\ notice = "error_retrieving_user"
              /\ termClosed

\* the transport authenticated a name the Store does not return, and Run
\* has returned
C30_Witness ==
    /\ pc = "done" /\ prefilledUsername = "ghost"
    /\ GetUser(prefilledUsername) = NoUser
    /\ notice = "error_retrieving_user"

\* C8: when Run has returned, the session has stopped the status-bar
\* ticker, restored the scroll region, cleared the status-bar line, restored
\* the terminal mode and closed the Terminal.
C8_TeardownComplete ==
    pc = "done" =>
        /\ {"stop_ticker", "restore_scroll_region", "clear_status_bar"}
              \subseteq teardown
        /\ ~rawMode
        /\ termClosed

\* C17: a local login in which three attempts named no active user with the
\* typed password has printed "Invalid username or password." three times,
\* then "Too many failed attempts. Access denied.", and has ended without a
\* menu ever being displayed.
C17_ThreeMismatchesDenied ==
    mismatches = 3 =>
        /\ pc = "done" /\ exitReason = "login_failed"
        /\ invalidNotices = 3
        /\ notice = "access_denied_login"
        /\ ~menuShown /\ shown = <<>>

C17_Witness ==
    /\ termKind = "local" /\ mismatches = 3 /\ attempts = 3 /\ termClosed

\* C18: a session that has logged in has called UpdateUserLastCall exactly
\* once, and a session that has not (yet, or ever) has never called it.
C18_LastCallTouchedOnce ==
    /\ authenticated => touches = 1
    /\ ~authenticated => touches = 0

\* one session logged in at the local prompt after a failed attempt, or
\* arrived pre-authenticated, and has reached its menu
C18_Witness ==
    /\ authenticated /\ touches = 1 /\ pc = "menu"
    /\ (termKind = "local" => invalidNotices > 0)

\* C19: a goodbye key (g, G or Ctrl-C) read at a menu prints the goodbye
\* message and ends the session, and an ended session reads no further key.
C19_GoodbyeTerminates ==
    /\ [](lastKey.name = "goodbye" =>
            /\ pc = "done" /\ exitReason = "goodbye"
            /\ notice = "goodbye" /\ termClosed)
    /\ [][pc = "done" => pc' = "done" /\ lastKey' = lastKey]_vars

\* goodbye typed in a submenu
C19_Witness ==
    /\ lastKey.name = "goodbye" /\ pc = "done" /\ currentMenu # "main"

----------------------------------------------------------------------------
(* statusbar.Manager: Start, the goroutine it starts, Stop                 *)

SessionIdle ==
    /\ cfg = "shipped" /\ termKind = "ssh" /\ prefilledUsername = "sysop"
    /\ pc = "menu" /\ user = GetUser("sysop") /\ authenticated = TRUE
    /\ attempts = 0 /\ currentMenu = "main" /\ menuHistory = <<>>
    /\ selectedIndex = 0 /\ shown = displayMenu("shipped", "main", GetUser("sysop"))
    /\ menuShown = TRUE /\ lastKey = NoKey /\ running = "none"
    /\ notice = "none" /\ invalidNotices = 0 /\ touches = 1
    /\ rawMode = FALSE /\ termClosed = FALSE /\ teardown = {}
    /\ exitReason = "none" /\ navDepth = 0 /\ entries = 0
    /\ mismatches = 0

InitMgr == SessionIdle /\ MgrIdle /\ WriterIdle /\ ExtIdle

\* Manager.Start: under m.mu, makes updateChan and starts the goroutine
Start ==
    /\ gpc = "idle"
    /\ gpc' = "init"
    /\ UNCHANGED <<isInitialized, updateTicker, tickerActive, tickPending,
                   updateChan, spc, stopCalled, sentAfterStop>>
    /\ UNCHANGED <<sessVars, wrVars, extVars>>

\* goroutine: "Send initial fixed setup ONLY"; updateChan has room for it
GoInit ==
    /\ gpc = "init"
    /\ IF ~isInitialized
       THEN /\ isInitialized' = TRUE
            /\ updateChan' = updateChan + 1
       ELSE UNCHANGED <<isInitialized, updateChan>>
    /\ gpc' = "newTicker"
    /\ UNCHANGED <<updateTicker, tickerActive, tickPending, spc,
                   stopCalled, sentAfterStop>>
    /\ UNCHANGED <<sessVars, wrVars, extVars>>

\* goroutine: m.updateTicker = time.NewTicker(updateInterval)
GoNewTicker ==
    /\ gpc = "newTicker"
    /\ updateTicker' = "set"
    /\ tickerActive' = TRUE
    /\ gpc' = "loop"
    /\ UNCHANGED <<isInitialized, tickPending, updateChan, spc, stopCalled,
                   sentAfterStop>>
    /\ UNCHANGED <<sessVars, wrVars, extVars>>

\* goroutine: entering the select evaluates m.updateTicker.C, which panics
\* on the nil pointer Stop leaves behind
GoSelect ==
    /\ gpc = "loop"
    /\ gpc' = IF updateTicker = "nil" THEN "panic" ELSE "parked"
    /\ UNCHANGED <<isInitialized, updateTicker, tickerActive, tickPending,
                   updateChan, spc, stopCalled, sentAfterStop>>
    /\ UNCHANGED <<sessVars, wrVars, extVars>>

\* the running time.Ticker puts a tick into its channel
TickerFires ==
    /\ tickerActive
    /\ ~tickPending
    /\ tickPending' = TRUE
    /\ UNCHANGED <<gpc, isInitialized, updateTicker, tickerActive, updateChan,
                   spc, stopCalled, sentAfterStop>>
    /\ UNCHANGED <<sessVars, wrVars, extVars>>

\* goroutine: case <-m.updateTicker.C, then getTimerUpdate
GoTick ==
    /\ gpc = "parked"
    /\ tickPending
    /\ tickPending' = FALSE
    /\ gpc' = IF isInitialized THEN "sendTick" ELSE "loop"
    /\ UNCHANGED <<isInitialized, updateTicker, tickerActive, updateChan,
                   spc, stopCalled, sentAfterStop>>
    /\ UNCHANGED <<sessVars, wrVars, extVars>>

\* goroutine: updateChan <- timerUpdate, which blocks while the buffer is full
GoSendTick ==
    /\ gpc = "sendTick"
    /\ updateChan < 1
    /\ updateChan' = updateChan + 1
    /\ sentAfterStop' = IF stopCalled /\ sentAfterStop < MaxSent
                        THEN sentAfterStop + 1 ELSE sentAfterStop
    /\ gpc' = "loop"
    /\ UNCHANGED <<isInitialized, updateTicker, tickerActive, tickPending,
                   spc, stopCalled>>
    /\ UNCHANGED <<sessVars, wrVars, extVars>>

\* Manager.Stop, first half (under m.mu, which the goroutine never takes):
\* stop the ticker and forget it
StopTicker ==
    /\ gpc # "idle"
    /\ spc = "out"
    /\ spc' = "signal"
    /\ updateTicker' = "nil"
    /\ IF updateTicker # "nil"
       THEN tickerActive' = FALSE
       ELSE UNCHANGED tickerActive
    /\ UNCHANGED <<gpc, isInitialized, tickPending, updateChan, stopCalled,
                   sentAfterStop>>
    /\ UNCHANGED <<sessVars, wrVars, extVars>>

\* Manager.Stop, second half: offer the stop signal without blocking; only a
\* goroutine parked in the select takes it, and then returns (deferred:
\* ticker.Stop, close(updateChan)).
StopSignal ==
    /\ spc = "signal"
    /\ spc' = "out"
    /\ stopCalled' = TRUE
    /\ gpc' = IF gpc = "parked" THEN "done" ELSE gpc
    /\ tickerActive' = IF gpc = "parked" THEN FALSE ELSE tickerActive
    /\ UNCHANGED <<isInitialized, updateTicker, tickPending, updateChan,
                   sentAfterStop>>
    /\ UNCHANGED <<sessVars, wrVars, extVars>>

\* the receiver of the channel Start returned takes one update
ReceiveUpdate ==
    /\ updateChan > 0
    /\ updateChan' = updateChan - 1
    /\ UNCHANGED <<gpc, isInitialized, updateTicker, tickerActive, tickPending,
                   spc, stopCalled, sentAfterStop>>
    /\ UNCHANGED <<sessVars, wrVars, extVars>>

Goroutine == GoInit \/ GoNewTicker \/ GoSelect \/ GoTick \/ GoSendTick

NextMgr ==
    \/ Start \/ Goroutine \/ TickerFires \/ StopTicker \/ StopSignal
    \/ ReceiveUpdate

SpecMgr == InitMgr /\ [][NextMgr]_vars

\* The Go scheduler runs a runnable goroutine, a running ticker fires, and
\* the receiver keeps draining the channel.
FairSpecMgr ==
    /\ SpecMgr
    /\ WF_vars(Goroutine)
    /\ WF_vars(TickerFires)
    /\ WF_vars(ReceiveUpdate)

\* The goroutine has returned, or has died of a panic.
Terminated == gpc \in {"done", "panic"}

\* C9: once Stop has been called on a started Manager, the goroutine
\* terminates and no timer update is sent after that Stop.
C9_StopEndsTicker ==
    /\ [](stopCalled => <>Terminated)
    /\ [](sentAfterStop = 0)

\* Which thread holds m.mu: Stop between its Lock and its deferred Unlock;
\* the goroutine never takes it
HoldsMu(thread) == thread = "Stop" /\ spc = "signal"

\* C25: the Manager's shared fields are written only under m.mu and the
\* goroutine never dereferences a nil ticker: every step that changes
\* isInitialized or updateTicker is taken by a thread holding m.mu after
\* it, and the goroutine does not panic.
C25_ThreadSafe ==
    [][/\ gpc' # "panic"
       /\ (isInitialized' # isInitialized \/ updateTicker' # updateTicker)
             => (HoldsMu("Stop"))']_vars

----------------------------------------------------------------------------
(* server.TerminalWriter: Write, handleStatusBarRedraw, doStatusBarRedraw, *)
(* for a session whose status bar is installed (session.statusBar != nil)  *)

InitWriter == SessionIdle /\ MgrIdle /\ WriterIdle /\ ExtIdle

Max(a, b) == IF a >= b THEN a ELSE b

FreeBg == {i \in BgIds : bpc[i] = "none"}

CountRepaint == IF repaints < MaxRepaints THEN repaints + 1 ELSE repaints

\* Write: terminalInstance.Write(data) starts; term.Terminal takes its own
\* lock for the duration of the write.  clear says whether data contains
\* ESC[2J or ESC[H ESC[0J.
WriteBegin(clear) ==
    /\ wpc = "idle"
    /\ tCloses = <<>>
    /\ termLock = NoOne
    /\ termLock' = MainLoop
    /\ wclear' = clear
    /\ wpc' = "writing"
    /\ UNCHANGED <<bpc, sleepLeft, mutexHolder, pendingRedraw,
                   lastStatusBarRedraw, now, repaints>>
    /\ UNCHANGED owed
    /\ UNCHANGED <<sessVars, mgrVars, extVars>>

\* Write: terminalInstance.Write returns; handleStatusBarRedraw(data) is next
WriteEnd ==
    /\ wpc = "writing"
    /\ termLock' = NoOne
    /\ wpc' = IF wclear THEN "debounce" ELSE "idle"
    /\ owed' = IF wclear /\ owed = NoDeadline THEN now + DebounceUnits
               ELSE owed
    /\ UNCHANGED <<wclear, bpc, sleepLeft, mutexHolder, pendingRedraw,
                   lastStatusBarRedraw, now, repaints>>
    /\ UNCHANGED <<sessVars, mgrVars, extVars>>

\* handleStatusBarRedraw that drops a clear arriving inside the window
\* instead of scheduling the delayed repaint
Debounce_DropInsideWindow ==
    /\ wpc = "debounce"
    /\ mutexHolder = NoOne
    /\ IF now - lastStatusBarRedraw < DebounceUnits
       THEN /\ wpc' = "idle"
            /\ UNCHANGED <<mutexHolder, lastStatusBarRedraw>>
       ELSE /\ lastStatusBarRedraw' = now
            /\ mutexHolder' = MainLoop
            /\ wpc' = "redrawWait"
    /\ UNCHANGED <<wclear, termLock, now, repaints, bpc, sleepLeft,
                   pendingRedraw, owed>>
    /\ UNCHANGED <<sessVars, mgrVars, extVars>>

\* handleStatusBarRedraw after a clear: take statusBarRedrawMutex; inside the
\* 100 ms window schedule one delayed repaint (or none if one is pending)
\* and return; outside it set lastStatusBarRedraw and go on to
\* doStatusBarRedraw with the mutex still held.
Debounce ==
    /\ wpc = "debounce"
    /\ mutexHolder = NoOne
    /\ IF now - lastStatusBarRedraw < DebounceUnits
       THEN /\ IF ~pendingRedraw
               THEN /\ FreeBg # {}
                    /\ LET i == Min(FreeBg) IN
                         /\ bpc' = [bpc EXCEPT ![i] = "sleep"]
                         /\ sleepLeft' = [sleepLeft EXCEPT ![i] = DebounceUnits]
                    /\ pendingRedraw' = TRUE
               ELSE UNCHANGED <<bpc, sleepLeft, pendingRedraw>>
            /\ wpc' = "idle"
            /\ UNCHANGED <<mutexHolder, lastStatusBarRedraw>>
       ELSE /\ lastStatusBarRedraw' = now
            /\ mutexHolder' = MainLoop
            /\ wpc' = "redrawWait"
            /\ UNCHANGED <<bpc, sleepLeft, pendingRedraw>>
    /\ UNCHANGED <<wclear, termLock, now, repaints>>
    /\ UNCHANGED owed
    /\ UNCHANGED <<sessVars, mgrVars, extVars>>

\* doStatusBarRedraw called by handleStatusBarRedraw: the terminal write
\* starts
RedrawBegin ==
    /\ wpc = "redrawWait"
    /\ termLock = NoOne
    /\ termLock' = MainLoop
    /\ wpc' = "redrawing"
    /\ owed' = NoDeadline
    /\ UNCHANGED <<wclear, bpc, sleepLeft, mutexHolder, pendingRedraw,
                   lastStatusBarRedraw, now, repaints>>
    /\ UNCHANGED <<sessVars, mgrVars, extVars>>

\* ... and ends; handleStatusBarRedraw returns and its deferred Unlock runs
RedrawEnd ==
    /\ wpc = "redrawing"
    /\ termLock' = NoOne
    /\ mutexHolder' = NoOne
    /\ repaints' = CountRepaint
    /\ wpc' = "idle"
    /\ UNCHANGED <<wclear, bpc, sleepLeft, pendingRedraw, lastStatusBarRedraw,
                   now>>
    /\ UNCHANGED owed
    /\ UNCHANGED <<sessVars, mgrVars, extVars>>

\* Some call is in progress, or a sleep is over: a step is due now
StepDue ==
    \/ wpc # "idle"
    \/ \E i \in BgIds : bpc[i] \in {"redrawWait", "redrawing"}
    \/ \E i \in BgIds : bpc[i] = "sleep" /\ sleepLeft[i] = 0

\* 50 ms pass; only time.Sleep takes time, the calls themselves do not
AdvanceTime ==
    /\ now < MaxTime
    /\ ~StepDue
    /\ now' = now + 1
    /\ sleepLeft' = [i \in BgIds |-> Max(0, sleepLeft[i] - 1)]
    /\ UNCHANGED <<wpc, wclear, bpc, mutexHolder, termLock, pendingRedraw,
                   lastStatusBarRedraw, repaints>>
    /\ UNCHANGED owed
    /\ UNCHANGED <<sessVars, mgrVars, extVars>>

\* delayed goroutine after time.Sleep: Lock, pendingRedraw = false,
\* lastStatusBarRedraw = time.Now(), Unlock
BgWake(i) ==
    /\ bpc[i] = "sleep"
    /\ sleepLeft[i] = 0
    /\ mutexHolder = NoOne
    /\ pendingRedraw' = FALSE
    /\ lastStatusBarRedraw' = now
    /\ bpc' = [bpc EXCEPT ![i] = "redrawWait"]
    /\ UNCHANGED <<wpc, wclear, sleepLeft, mutexHolder, termLock, now,
                   repaints>>
    /\ UNCHANGED owed
    /\ UNCHANGED <<sessVars, mgrVars, extVars>>

\* delayed goroutine: doStatusBarRedraw, the terminal write starts
BgRedrawBegin(i) ==
    /\ bpc[i] = "redrawWait"
    /\ termLock = NoOne
    /\ termLock' = i
    /\ owed' = NoDeadline
    /\ bpc' = [bpc EXCEPT ![i] = "redrawing"]
    /\ UNCHANGED <<wpc, wclear, sleepLeft, mutexHolder, pendingRedraw,
                   lastStatusBarRedraw, now, repaints>>
    /\ UNCHANGED <<sessVars, mgrVars, extVars>>

\* ... and ends; the goroutine is finished
BgRedrawEnd(i) ==
    /\ bpc[i] = "redrawing"
    /\ termLock' = NoOne
    /\ repaints' = CountRepaint
    /\ bpc' = [bpc EXCEPT ![i] = "none"]
    /\ UNCHANGED <<wpc, wclear, sleepLeft, mutexHolder, pendingRedraw,
                   lastStatusBarRedraw, now>>
    /\ UNCHANGED owed
    /\ UNCHANGED <<sessVars, mgrVars, extVars>>

\* Session.Run returns between two writes: its deferred call closes the
\* Terminal, here the channel of an SSH session. Nothing stops or waits
\* for the delayed goroutines.
SessionExit ==
    /\ wpc = "idle"
    /\ tCloses = <<>>
    /\ tCloses' = <<"run">>
    /\ chSentClose' = TRUE
    /\ chCloseMsgs' = chCloseMsgs + 1
    /\ UNCHANGED <<tKind, tIsTerminal, tRawMode, tOldState, tTerminal, tPrompt,
                   tTty, tRestores>>
    /\ UNCHANGED nonTmVars

NextWriter ==
    \/ SessionExit
    \/ \E clear \in BOOLEAN : WriteBegin(clear)
    \/ WriteEnd
    \/ Debounce
    \/ RedrawBegin
    \/ RedrawEnd
    \/ AdvanceTime
    \/ \E i \in BgIds : BgWake(i)
    \/ \E i \in BgIds : BgRedrawBegin(i)
    \/ \E i \in BgIds : BgRedrawEnd(i)

SpecWriter == InitWriter /\ [][NextWriter]_vars

\* Goroutines with a write to the terminal in progress
Writers ==
    (IF wpc \in {"writing", "redrawing"} THEN {MainLoop} ELSE {})
        \cup {i \in BgIds : bpc[i] = "redrawing"}

\* C10: at most one write to the terminal is in progress, and whoever writes
\* does so through the Writer adapter under its mutex.
C10_WritesUnderWriterMutex ==
    /\ Cardinality(Writers) <= 1
    /\ \A g \in Writers : mutexHolder = g

\* C12: two full repaints are never stamped less than 100 ms apart, and
\* the clears arriving inside one window share a single delayed repaint.
C12_RepaintsDebounced ==
    /\ [][lastStatusBarRedraw' # lastStatusBarRedraw
            => lastStatusBarRedraw' - lastStatusBarRedraw >= DebounceUnits]_vars
    /\ [](Cardinality({i \in BgIds : bpc[i] = "sleep"}) <= 1)

\* C36: once Session.Run has closed the Terminal no status-bar repaint is
\* written to it: no delayed goroutine is inside doStatusBarRedraw's write.
C36_NoRepaintAfterTeardown ==
    tCloses # <<>> => \A i \in BgIds : bpc[i] # "redrawing"

----------------------------------------------------------------------------
(* The terminal screen: what the byte strings of the status bar, the menu  *)
(* renderer, the session and the Pager do to the cursor and the last row   *)

\* Escape sequences and text, as terminal operations
Cup(r) == [op |-> "cup", arg |-> r]         \* ESC[r;cH
Stbm(b) == [op |-> "stbm", arg |-> b]       \* ESC[1;br
Text == [op |-> "text", arg |-> 0]          \* printable text, no newline
Lf == [op |-> "lf", arg |-> 0]              \* \n
El == [op |-> "el", arg |-> 0]              \* ESC[2K
Ed == [op |-> "ed", arg |-> 0]              \* ESC[0J and ESC[2J
SaveCursor == [op |-> "save", arg |-> 0]    \* ESC[s
RestoreCursor == [op |-> "restore", arg |-> 0]  \* ESC[u

\* One operation written by component who to a terminal of height h
ApplyOp(o, who, h, t) ==
    CASE o.op = "cup" -> [t EXCEPT !.row = IF o.arg > h THEN h ELSE o.arg]
      [] o.op = "stbm" -> [t EXCEPT !.bottom = o.arg, !.row = 1]
      [] o.op = "text" -> IF t.row = h THEN [t EXCEPT !.bar = who] ELSE t
      [] o.op = "lf" -> IF t.row = t.bottom \/ t.row = h
                        THEN t
                        ELSE [t EXCEPT !.row = t.row + 1]
      [] o.op = "el" -> IF t.row = h THEN [t EXCEPT !.bar = "blank"] ELSE t
      [] o.op = "ed" -> [t EXCEPT !.bar = "blank"]
      [] o.op = "save" -> [t EXCEPT !.saved = t.row]
      [] o.op = "restore" -> [t EXCEPT !.row = t.saved]

RECURSIVE Apply(_, _, _, _)
Apply(ops, who, h, t) ==
    IF ops = <<>> THEN t
    ELSE Apply(Tail(ops), who, h, ApplyOp(Head(ops), who, h, t))

\* StatusBar.Render of an active bar: clear the line, paint it
Render == <<El, Text>>

\* StatusBar.InitializeFixed
InitializeFixed(terminalHeight) ==
    <<Stbm(terminalHeight - 1), Cup(terminalHeight)>> \o Render \o <<Cup(1)>>

\* StatusBar.Clear
Clear(terminalHeight) == <<Stbm(terminalHeight), Cup(terminalHeight), El>>

\* Manager.getTimerUpdate once initialised: position, nine spaces,
\* position again, the timer
getTimerUpdate(terminalHeight) ==
    <<Cup(terminalHeight), Text, Cup(terminalHeight), Text>>

\* TerminalWriter.doStatusBarRedraw
doStatusBarRedraw(h) ==
    <<SaveCursor, Cup(h), El>> \o Render \o <<RestoreCursor>>

\* cnt lines of text, each followed by a newline
RECURSIVE TextLines(_)
TextLines(cnt) == IF cnt = 0 THEN <<>> ELSE <<Text, Lf>> \o TextLines(cnt - 1)

\* MenuRenderer.renderMenu and renderInstructions for n items
renderMenu(n) ==
    <<Cup(1), Ed, Text, Lf, Lf, Text, Lf>> \o TextLines(n)
        \o <<Text, Lf, Lf, Text>>

\* executeCommand's notice followed by waitForKey's prompt
NoticeAndPrompt == <<Text, Lf, Lf, Text>>

\* cnt lines, each positioned absolutely, the first at row first
RECURSIVE PositionedLines(_, _)
PositionedLines(first, cnt) ==
    IF cnt = 0 THEN <<>>
    ELSE <<Cup(first), Text>> \o PositionedLines(first + 1, cnt - 1)

\* Lines the content loop of the Pager writes when it starts at row first:
\* it stops at the first row beyond maxContentLine = height - 6
ContentCount(n, first, h) ==
    LET room == (h - 6) - first + 1 IN
      IF room <= 0 THEN 0 ELSE IF n <= room THEN n ELSE room

\* Pager.displaySinglePage for n lines
displaySinglePage(n, h) ==
    <<Cup(1), Ed, Cup(1), Text, Cup(2), Text>>
        \o PositionedLines(4, ContentCount(n, 4, h))
        \o <<Cup(h - 5), Text>>

\* displayPage with the footer put on the last row of the terminal
displayPage_FooterOnLastRow(n, h) ==
    <<Cup(1), Ed, Cup(1), Text, Cup(2), Text, Cup(3), Text>>
        \o PositionedLines(5, ContentCount(n, 5, h))
        \o <<Cup(h), Text>>

\* Pager.displayPage and displayFooter for a page of n lines
displayPage(n, h) ==
    <<Cup(1), Ed, Cup(1), Text, Cup(2), Text, Cup(3), Text>>
        \o PositionedLines(5, ContentCount(n, 5, h))
        \o <<Cup(h - 5), Text>>

\* Bounds of the screen model: items of a menu, lines given to the Pager
MaxItems == 8
MaxLines == 16

InitScreen ==
    /\ SessionIdle /\ MgrIdle /\ WriterIdle
    /\ height \in Heights
    /\ installed = FALSE
    /\ scr = FreshScreen(height)
    /\ PagerIdle /\ AuthIdle /\ RestIdle

\* The receiver of the channel Manager.Start returned writes an update to
\* the terminal as it is
WriteUpdate(u) == scr' = Apply(u, "manager", height, scr)

\* A content writer (session, menu renderer, Pager) writes through the
\* session's TerminalWriter
WriteContent(data) == scr' = Apply(data, "content", height, scr)

\* first update of the goroutine of Manager.Start: InitializeFixed
InstallStatusBar ==
    /\ ~installed
    /\ WriteUpdate(InitializeFixed(height))
    /\ installed' = TRUE
    /\ UNCHANGED <<height, nonScrVars>>

\* a tick: getTimerUpdate
TimerUpdate ==
    /\ installed
    /\ WriteUpdate(getTimerUpdate(height))
    /\ UNCHANGED <<height, installed, nonScrVars>>

\* TerminalWriter.doStatusBarRedraw after a clear
StatusBarRedraw ==
    /\ installed
    /\ scr' = Apply(doStatusBarRedraw(height), "manager", height, scr)
    /\ UNCHANGED <<height, installed, nonScrVars>>

\* Manager.Clear written to the terminal
ClearStatusBar ==
    /\ installed
    /\ WriteUpdate(Clear(height))
    /\ installed' = FALSE
    /\ UNCHANGED <<height, nonScrVars>>

\* displayMenu of a menu of n visible items
MenuRender(n) ==
    /\ WriteContent(renderMenu(n))
    /\ UNCHANGED <<height, installed, nonScrVars>>

\* executeCommand: a notice and the prompt of waitForKey
NoticeWrite ==
    /\ WriteContent(NoticeAndPrompt)
    /\ UNCHANGED <<height, installed, nonScrVars>>

\* the Pager shows n lines on a single page
PagerSinglePage(n) ==
    /\ n <= height - 9
    /\ WriteContent(displaySinglePage(n, height))
    /\ UNCHANGED <<height, installed, nonScrVars>>

\* the Pager shows a page of n lines of a longer document
PagerPage(n) ==
    /\ n >= 1 /\ n <= height - 9
    /\ WriteContent(displayPage(n, height))
    /\ UNCHANGED <<height, installed, nonScrVars>>

NextScreen ==
    \/ InstallStatusBar
    \/ TimerUpdate
    \/ StatusBarRedraw
    \/ ClearStatusBar
    \/ \E n \in 1..MaxItems : MenuRender(n)
    \/ NoticeWrite
    \/ \E n \in 0..MaxLines : PagerSinglePage(n)
    \/ \E n \in 0..MaxLines : PagerPage(n)

SpecScreen == InitScreen /\ [][NextScreen]_vars

\* C11: while the status bar is installed, what is on the last row of the
\* terminal was never written by a content writer (session, menu renderer,
\* Pager): only the status bar's own strings are written there.
C11_BarRowOnlyByStatusBar == installed => scr.bar # "content"

\* C35: a timer-only update leaves the cursor where it was: the row of the
\* cursor after the update is written equals the row before it.
C35_TimerUpdateKeepsCursor == [][TimerUpdate => scr'.row = scr.row]_vars

----------------------------------------------------------------------------
(* pager.Pager.Display, reading its keys through TerminalKeyReader         *)

InitPager ==
    /\ SessionIdle /\ MgrIdle /\ WriterIdle
    /\ height \in Heights /\ installed = FALSE /\ scr = FreshScreen(height)
    /\ ppc = "idle" /\ lines \in 0..MaxLines
    /\ currentPage = 0 /\ totalPages = 0
    /\ pgRows = {} /\ pgEmitted = {} /\ pagesSeen = {}
    /\ pgLastBytes = <<>> /\ pgExit = "none" /\ pgNexts = 0
    /\ AuthIdle /\ RestIdle

\* Rows at which a string prints text, the cursor starting on row
RECURSIVE TextRows(_, _)
TextRows(ops, row) ==
    IF ops = <<>> THEN {}
    ELSE LET o == Head(ops) IN
         IF o.op = "cup" THEN TextRows(Tail(ops), o.arg)
         ELSE IF o.op = "text" THEN {row} \cup TextRows(Tail(ops), row)
         ELSE TextRows(Tail(ops), row)

\* totalPages computed by rounding down
TotalPages_RoundDown(n, availableLines) == n \div availableLines

\* totalPages := (len(lines) + availableLines - 1) / availableLines
TotalPages(n, availableLines) ==
    (n + availableLines - 1) \div availableLines

\* len(lines[startIdx:endIdx]) of page currentPage (0-based)
PageLen(n, availableLines, page) ==
    LET startIdx == page * availableLines
        endIdx == IF startIdx + availableLines > n THEN n
                  ELSE startIdx + availableLines
    IN endIdx - startIdx

\* Numbers (1-based) of the input lines the content loop writes for a slice
\* of n lines that begins after line startIdx, its first line on row first
EmittedLines(startIdx, n, first, h) ==
    (startIdx + 1)..(startIdx + ContentCount(n, first, h))

\* The bytes of SPACE, ENTER and the DOWN arrow
NextBytes == {<<32>>, <<13>>, <<27, 91, 66>>}

NoRun == 0 - 1

\* The count of presses of a run of SPACE/ENTER/DOWN presses from the first
\* page, after the key bs
CountNext(bs) ==
    IF pgNexts # NoRun /\ bs \in NextBytes THEN pgNexts + 1 ELSE NoRun

\* Keys of the Pager's switch, as TerminalKeyReader.ReadKey returns them
IsQuitKey(k) == k.name = "char" /\ k.ch \in {113, 81}

\* a switch without the " " case
IsNextKey_NoSpace(k) == k.name \in {"enter", "down"}

IsNextKey(k) == (k.name = "char" /\ k.ch = 32) \/ k.name \in {"enter", "down"}
IsBackKey(k) == (k.name = "char" /\ k.ch \in {98, 66}) \/ k.name = "up"

\* Byte sequences typed at the Pager
PagerKeySeqs ==
    { <<113>>, <<81>>, <<32>>, <<13>>, <<27, 91, 66>>, <<98>>, <<66>>,
      <<27, 91, 65>>, <<120>>, <<NoByte>>, <<ReadErr>> }

\* Display up to its first ReadKey
Display ==
    /\ ppc = "idle"
    /\ LET availableLines == height - 9 IN
         IF lines <= availableLines
         THEN /\ ppc' = "single"
              /\ totalPages' = 1
              /\ pgRows' = TextRows(displaySinglePage(lines, height), 1)
              /\ pgEmitted' = EmittedLines(0, lines, 4, height)
         ELSE /\ ppc' = "paging"
              /\ totalPages' = TotalPages(lines, availableLines)
              /\ pgRows' = TextRows(displayPage(
                               PageLen(lines, availableLines, 0), height), 1)
              /\ pgEmitted' = EmittedLines(0,
                               PageLen(lines, availableLines, 0), 5, height)
    /\ currentPage' = 0
    /\ pagesSeen' = {1}
    /\ UNCHANGED <<lines, pgLastBytes, pgExit, pgNexts>>
    /\ UNCHANGED nonPgVars

\* displaySinglePage: any key (or a read error) returns
SinglePageKey(bs) ==
    /\ ppc = "single"
    /\ LET r == readKey(termKind, bs) IN
         /\ r.used = Len(bs)
         /\ pgExit' = IF r.err THEN "error" ELSE "anykey"
    /\ pgLastBytes' = bs
    /\ pgNexts' = CountNext(bs)
    /\ ppc' = "done"
    /\ UNCHANGED <<lines, currentPage, totalPages, pgRows, pgEmitted,
                   pagesSeen>>
    /\ UNCHANGED nonPgVars

\* one turn of the navigation loop: ReadKey, the switch, the next displayPage
PageKey(bs) ==
    /\ ppc = "paging"
    /\ LET r == readKey(termKind, bs)
           availableLines == height - 9
           next == IF IsNextKey(r.key) /\ currentPage < totalPages - 1
                   THEN currentPage + 1
                   ELSE IF IsBackKey(r.key) /\ currentPage > 0
                        THEN currentPage - 1
                        ELSE currentPage
       IN /\ r.used = Len(bs)
          /\ pgLastBytes' = bs
          /\ pgNexts' = CountNext(bs)
          /\ IF r.err
             THEN /\ ppc' = "done" /\ pgExit' = "error"
                  /\ UNCHANGED <<currentPage, pgRows, pgEmitted, pagesSeen>>
             ELSE IF IsQuitKey(r.key)
             THEN /\ ppc' = "done" /\ pgExit' = "quit"
                  /\ UNCHANGED <<currentPage, pgRows, pgEmitted, pagesSeen>>
             ELSE IF IsNextKey(r.key) /\ ~(currentPage < totalPages - 1)
             THEN /\ ppc' = "done" /\ pgExit' = "end"
                  /\ UNCHANGED <<currentPage, pgRows, pgEmitted, pagesSeen>>
             ELSE /\ currentPage' = next
                  /\ pgRows' = TextRows(displayPage(
                               PageLen(lines, availableLines, next), height), 1)
                  /\ pgEmitted' = EmittedLines(next * availableLines,
                               PageLen(lines, availableLines, next), 5, height)
                  /\ pagesSeen' = pagesSeen \cup {next + 1}
                  /\ UNCHANGED <<ppc, pgExit>>
    /\ UNCHANGED <<lines, totalPages>>
    /\ UNCHANGED nonPgVars

NextPager ==
    \/ Display
    \/ \E bs \in PagerKeySeqs : SinglePageKey(bs)
    \/ \E bs \in PagerKeySeqs : PageKey(bs)

SpecPager == InitPager /\ [][NextPager]_vars

\* C14: every row the Pager writes text to lies above the last row of the
\* terminal, on the single-page path and on every page of a longer document.
C14_PagerRowsAboveLastRow == \A r \in pgRows : r >= 1 /\ r < height

\* the last, partly filled page of a document of several pages is shown
C14_Witness ==
    /\ ppc = "paging" /\ totalPages >= 3 /\ currentPage = totalPages - 1
    /\ (height - 5) \in pgRows

\* The least k with k * d >= n
CeilDiv(n, d) == CHOOSE k \in 0..n : k * d >= n /\ (k = 0 \/ (k - 1) * d < n)

ExpectedPages(n, h) == IF CeilDiv(n, h - 9) < 1 THEN 1 ELSE CeilDiv(n, h - 9)

\* C15: the Pager presents max(1, ceil(n / (H - 9))) pages: that is its page
\* count, no other page number is ever shown, and a reader who pages to the
\* end has seen each of them.
C15_PageCount ==
    ppc # "idle" =>
        /\ totalPages = ExpectedPages(lines, height)
        /\ pagesSeen \subseteq 1..ExpectedPages(lines, height)
        /\ pgExit \in {"end", "anykey"} =>
               pagesSeen = 1..ExpectedPages(lines, height)

\* a document of four pages has been paged through to its end
C15_Witness == pgExit = "end" /\ totalPages = 4 /\ lines % (height - 9) # 0

\* C16: once q or Q has been typed on a page of a multi-page document, the
\* Pager has returned.
C16_QuitKeyReturns ==
    (totalPages > 1 /\ pgLastBytes \in {<<113>>, <<81>>}) => ppc = "done"

\* Numbers of the input lines of the slice lines[startIdx:endIdx] of a page
PageSlice(n, availableLines, page) ==
    (page * availableLines + 1)
        ..(page * availableLines + PageLen(n, availableLines, page))

\* C31: in multi-page mode the page shown has written every line of its
\* slice, and the slices of the pages follow one another without gap or
\* overlap and cover the input.
C31_PageEmitsItsSlice ==
    ppc = "paging" =>
        /\ pgEmitted = PageSlice(lines, height - 9, currentPage)
        /\ \A l \in 1..lines :
              Cardinality({pg \in 0..(totalPages - 1) :
                              l \in PageSlice(lines, height - 9, pg)}) = 1

\* C32: in a document of several pages a SPACE, ENTER or DOWN press on a
\* page before the last shows the next page and one on the last page makes
\* the Pager return; so after k such presses from the first page the Pager
\* shows page k + 1, and after as many presses as there are pages it has
\* returned.
C32_NextKeysPageThrough ==
    /\ [][(ppc = "paging" /\ pgLastBytes' \in NextBytes) =>
             IF currentPage < totalPages - 1
             THEN ppc' = "paging" /\ currentPage' = currentPage + 1
             ELSE ppc' = "done" /\ pgExit' = "end"]_vars
    /\ []((totalPages > 1 /\ pgNexts # NoRun) =>
             IF pgNexts < totalPages
             THEN ppc = "paging" /\ currentPage = pgNexts
             ELSE pgNexts = totalPages /\ ppc = "done" /\ pgExit = "end")

\* four presses, SPACE the last of them, have paged through four pages
C32_Witness ==
    /\ totalPages = 4 /\ pgNexts = 4 /\ ppc = "done"
    /\ pgLastBytes = <<32>>

----------------------------------------------------------------------------
(* Server.passwordCallback and the session HandleConnection creates        *)

\* Password attempts the SSH handshake allows on one connection
MaxTries == 6

InitAuth ==
    /\ SessionIdle /\ MgrIdle /\ WriterIdle /\ ScreenIdle /\ PagerIdle
    /\ RestIdle
    /\ cbUser \in Usernames
    /\ cbPassword = "" /\ cbResult = "none" /\ cbTries = 0
    /\ cbSession = "none" /\ cbErr = ""

\* passwordCallback that accepts any password of a user GetUser finds
passwordCallback_AnyPassword(username, password) ==
    IF GetUser(username) = NoUser THEN "fail" ELSE "ok"

\* Server.passwordCallback
passwordCallback(username, password) ==
    LET u == GetUser(username) IN
      IF u = NoUser THEN "fail"
      ELSE IF u.password # password THEN "fail"
      ELSE "ok"

\* passwordCallback whose error tells a failed lookup from a wrong password
passwordCallbackError_LookupLeaks(username, password) ==
    LET u == GetUser(username) IN
      IF u = NoUser THEN "user not found"
      ELSE IF u.password # password THEN "authentication failed"
      ELSE ""

\* Server.passwordCallback: the text of the error it returns
passwordCallbackError(username, password) ==
    LET u == GetUser(username) IN
      IF u = NoUser THEN "authentication failed"
      ELSE IF u.password # password THEN "authentication failed"
      ELSE ""

\* ssh.NewServerConn calls the callback with a password the client sent
PasswordAttempt(password) ==
    /\ cbResult # "ok"
    /\ cbTries < MaxTries
    /\ cbPassword' = password
    /\ cbResult' = passwordCallback(cbUser, password)
    /\ cbErr' = passwordCallbackError(cbUser, password)
    /\ cbTries' = cbTries + 1
    /\ UNCHANGED <<cbUser, cbSession>>
    /\ UNCHANGED nonCbVars

\* HandleConnection: the handshake succeeded; the session is created with
\* the username of the Permissions
HandleConnection ==
    /\ cbResult = "ok"
    /\ cbSession = "none"
    /\ cbSession' = cbUser
    /\ UNCHANGED <<cbUser, cbPassword, cbResult, cbErr, cbTries>>
    /\ UNCHANGED nonCbVars

NextAuth ==
    \/ \E password \in Passwords : PasswordAttempt(password)
    \/ HandleConnection

SpecAuth == InitAuth /\ [][NextAuth]_vars

\* C20: the password callback has succeeded only for a user that exists, is
\* active and whose stored password is the one supplied; a session is
\* created only after such a success.
C20_CallbackSuccessOnlyIfValid ==
    (cbResult = "ok" \/ cbSession # "none") =>
        \E i \in DOMAIN Users :
            /\ Users[i].username = cbUser
            /\ Users[i].is_active
            /\ Users[i].password = cbPassword

\* a user got in on a later attempt, after a wrong password
C20_Witness == cbResult = "ok" /\ cbTries > 1 /\ cbSession = cbUser

\* Why a callback call with these credentials fails
FailureCause(username, password) ==
    IF \A i \in DOMAIN Users : Users[i].username # username THEN "missing"
    ELSE IF \A i \in DOMAIN Users :
                Users[i].username = username => ~Users[i].is_active
         THEN "inactive"
    ELSE IF passwordCallback(username, password) = "fail" THEN "wrong_password"
    ELSE "none"

\* C21: a failed password callback returns the same error whatever made it
\* fail: the error of this failure is the error the callback returns for
\* every other failing pair of username and password, be the user missing,
\* inactive or the password wrong.
C21_FailureIndistinguishable ==
    cbResult = "fail" =>
        /\ cbErr # ""
        /\ \A u \in Usernames, p \in Passwords :
              passwordCallback(u, p) = "fail" =>
                  passwordCallbackError(u, p) = cbErr

\* an inactive user supplied the stored password and was refused, while
\* the three causes of failure all occur among the inputs
C21_Witness ==
    /\ cbResult = "fail" /\ cbUser = "bob" /\ cbPassword = "bob"
    /\ FailureCause(cbUser, cbPassword) = "inactive"
    /\ \E u \in Usernames, p \in Passwords :
          FailureCause(u, p) = "missing"
    /\ \E u \in Usernames, p \in Passwords :
          FailureCause(u, p) = "wrong_password"

-----------------------------------------------------------------------------
(* The users table under concurrent sessions and sysop maintenance         *)

InitStore ==
    /\ SessionIdle /\ MgrIdle /\ WriterIdle
    /\ ScreenIdle /\ PagerIdle /\ AuthIdle /\ TermIdle
    /\ ModuleIdle /\ HighlightIdle /\ AuxIdle
    /\ StoreIdle

\* ids of the rows a WHERE username = ? matches (username is UNIQUE)
RowsNamed(name) == {id \in Ids : dbRows[id] # NoRow /\ dbRows[id].username = name}

\* handleLogin of session s calls GetUser: SELECT ... WHERE username = ? AND
\* is_active = 1; the User it returns carries the row's total_calls
StoreGetUser(s, name) ==
    /\ dbpc[s] = "start"
    /\ dbName' = [dbName EXCEPT ![s] = name]
    /\ LET found == {id \in RowsNamed(name) : dbRows[id].is_active} IN
         IF found = {}
         THEN /\ dbpc' = [dbpc EXCEPT ![s] = "failed"]
              /\ UNCHANGED dbSeen
         ELSE /\ dbpc' = [dbpc EXCEPT ![s] = "got"]
              /\ dbSeen' = [dbSeen EXCEPT ![s] =
                               (LET id == CHOOSE i \in found : TRUE
                                IN dbRows[id].total_calls)]
    /\ UNCHANGED <<dbRows, dbOp, dbOps>>
    /\ UNCHANGED nonDbVars

\* UpdateUserLastCall that stores TotalCalls of the User struct plus one
StoreUpdateUserLastCall_WritesSeen(s) ==
    /\ dbpc[s] = "got"
    /\ dbRows' = [id \in Ids |->
                    IF id \in RowsNamed(dbName[s])
                    THEN [dbRows[id] EXCEPT !.total_calls = dbSeen[s] + 1]
                    ELSE dbRows[id]]
    /\ dbpc' = [dbpc EXCEPT ![s] = "done"]
    /\ UNCHANGED <<dbName, dbSeen, dbOp, dbOps>>
    /\ UNCHANGED nonDbVars

\* handleLogin of session s calls DB.UpdateUserLastCall: one statement,
\* UPDATE users SET last_call = ?, total_calls = total_calls + 1
\* WHERE username = ?, which SQLite executes as one write transaction
StoreUpdateUserLastCall(s) ==
    /\ dbpc[s] = "got"
    /\ dbRows' = [id \in Ids |->
                    IF id \in RowsNamed(dbName[s])
                    THEN [dbRows[id] EXCEPT !.total_calls = @ + 1]
                    ELSE dbRows[id]]
    /\ dbpc' = [dbpc EXCEPT ![s] = "done"]
    /\ UNCHANGED <<dbName, dbSeen, dbOp, dbOps>>
    /\ UNCHANGED nonDbVars

\* What UpdateUser and DeleteUser return: the error of Exec, which is nil
\* for a statement that ran, however many rows it affected
ExecError(rowsAffected) == "nil"

\* DB.UpdateUser: UPDATE users SET ... WHERE id = ?. The caller passes the
\* row's own username, so the UNIQUE constraint cannot fail.
StoreUpdateUser(id, isActive) ==
    /\ dbOps < MaxOps
    /\ dbOps' = dbOps + 1
    /\ LET existed == dbRows[id] # NoRow IN
         /\ dbRows' = IF existed
                      THEN [dbRows EXCEPT ![id].is_active = isActive]
                      ELSE dbRows
         /\ dbOp' = [op |-> "update", id |-> id, existed |-> existed,
                     err |-> ExecError(IF existed THEN 1 ELSE 0)]
    /\ UNCHANGED <<dbpc, dbName, dbSeen>>
    /\ UNCHANGED nonDbVars

\* DB.DeleteUser: DELETE FROM users WHERE id = ?
StoreDeleteUser(id) ==
    /\ dbOps < MaxOps
    /\ dbOps' = dbOps + 1
    /\ LET existed == dbRows[id] # NoRow IN
         /\ dbRows' = [dbRows EXCEPT ![id] = NoRow]
         /\ dbOp' = [op |-> "delete", id |-> id, existed |-> existed,
                     err |-> ExecError(IF existed THEN 1 ELSE 0)]
    /\ UNCHANGED <<dbpc, dbName, dbSeen>>
    /\ UNCHANGED nonDbVars

NextStore ==
    \/ \E s \in Sessions, name \in Usernames \ {""} : StoreGetUser(s, name)
    \/ \E s \in Sessions : StoreUpdateUserLastCall(s)
    \/ \E id \in Ids, isActive \in BOOLEAN : StoreUpdateUser(id, isActive)
    \/ \E id \in Ids : StoreDeleteUser(id)

SpecStore == InitStore /\ [][NextStore]_vars

\* sessions whose UpdateUserLastCall for this username has returned
Touched(name) == {s \in Sessions : dbpc[s] = "done" /\ dbName[s] = name}

\* C22: UpdateUserLastCall loses no update: the total_calls of every row
\* of the users table is its initial value plus the number of sessions
\* whose UpdateUserLastCall for that username has returned, however the
\* sessions' calls interleave.
C22_NoLostUpdate ==
    \A id \in Ids :
        dbRows[id] # NoRow =>
            dbRows[id].total_calls =
                InitialRows[id].total_calls
                    + Cardinality(Touched(dbRows[id].username))

\* every session logged in as sysop, each had read the row before any of
\* them updated it, and all updates have returned
C22_Witness ==
    /\ Touched("sysop") = Sessions
    /\ \A s \in Sessions : dbSeen[s] = 0
    /\ dbRows[1].total_calls = MaxSessions

\* C23: UpdateUser and DeleteUser called with an id no row has report
\* NotFound, not success.
C23_MissingIdReportsNotFound ==
    (dbOp.op \in {"update", "delete"} /\ ~dbOp.existed) =>
        dbOp.err = "NotFound"

-----------------------------------------------------------------------------
(* One Terminal, from NewLocalTerminal / NewSSHTerminal to its Close calls *)

\* Calls of Close the model follows: the deferred one of Run, then those
\* of the transport (handleSSHSession's or main's deferred Close)
MaxCloses == 3

\* Cap of the term.Restore counter
MaxRestores == 3

Prompts == {"", "Username: ", "Password: "}

InitTerm ==
    /\ SessionIdle /\ MgrIdle /\ WriterIdle
    /\ ScreenIdle /\ PagerIdle /\ AuthIdle /\ StoreIdle
    /\ ModuleIdle /\ HighlightIdle /\ AuxIdle
    /\ tKind \in {"local", "ssh"}
    /\ tIsTerminal \in (IF tKind = "local" THEN BOOLEAN ELSE {FALSE})
    /\ tRawMode = FALSE /\ tOldState = "nil"
    /\ tTerminal = (IF tKind = "ssh" THEN "set" ELSE "nil")
    /\ tPrompt = "" /\ tTty = "cooked" /\ tRestores = 0
    /\ chSentClose = FALSE /\ chCloseMsgs = 0 /\ tCloses = <<>>

\* The Terminal is in use by its session: Close has not been called
InUse == tCloses = <<>>

\* LocalTerminal.Restore that calls term.Restore whenever a state was saved
Restore_Unguarded ==
    IF tOldState # "nil" /\ tIsTerminal
    THEN /\ tTty' = tOldState
         /\ tRestores' = tRestores + 1
         /\ tRawMode' = FALSE
    ELSE UNCHANGED <<tTty, tRestores, tRawMode>>

\* LocalTerminal.Restore: term.Restore(fd, oldState) only in raw mode
Restore ==
    IF tOldState # "nil" /\ tIsTerminal /\ tRawMode
    THEN /\ tTty' = tOldState
         /\ tRestores' = tRestores + 1
         /\ tRawMode' = FALSE
    ELSE UNCHANGED <<tTty, tRestores, tRawMode>>

\* Terminal.MakeRaw: term.MakeRaw returns the state the tty had before
TermMakeRaw ==
    /\ InUse
    /\ tRestores < MaxRestores
    /\ IF tKind = "local" /\ tIsTerminal
       THEN /\ tOldState' = tTty
            /\ tTty' = "raw"
            /\ tRawMode' = TRUE
       ELSE UNCHANGED <<tOldState, tTty, tRawMode>>
    /\ UNCHANGED <<tKind, tIsTerminal, tTerminal, tPrompt, tRestores,
                   chSentClose, chCloseMsgs, tCloses>>
    /\ UNCHANGED nonTmVars

\* Terminal.Write: a LocalTerminal creates its term.Terminal on first use
TermWrite ==
    /\ InUse
    /\ tTerminal' = "set"
    /\ UNCHANGED <<tKind, tIsTerminal, tRawMode, tOldState, tPrompt, tTty,
                   tRestores, chSentClose, chCloseMsgs, tCloses>>
    /\ UNCHANGED nonTmVars

\* Terminal.SetPrompt: a LocalTerminal leaves raw mode first and creates
\* its term.Terminal. Terminal.ReadLine does the same and keeps the prompt:
\* it is the call with prompt = tPrompt.
TermSetPrompt(prompt) ==
    /\ InUse
    /\ IF tKind = "local" /\ tRawMode
       THEN Restore
       ELSE UNCHANGED <<tTty, tRestores, tRawMode>>
    /\ tTerminal' = "set"
    /\ tPrompt' = prompt
    /\ UNCHANGED <<tKind, tIsTerminal, tOldState, chSentClose, chCloseMsgs,
                   tCloses>>
    /\ UNCHANGED nonTmVars

\* ssh.Channel.Close: the close message goes out once; the channel refuses
\* every packet after it, a second close message included
ChannelClose ==
    IF chSentClose
    THEN UNCHANGED <<chSentClose, chCloseMsgs>>
    ELSE /\ chSentClose' = TRUE
         /\ chCloseMsgs' = chCloseMsgs + 1

\* Terminal.Close: LocalTerminal.Close is Restore, SSHTerminal.Close is
\* channel.Close. Run's deferred call comes first, the transport's after.
TermClose(caller) ==
    /\ Len(tCloses) < MaxCloses
    /\ caller = (IF tCloses = <<>> THEN "run" ELSE "transport")
    /\ tCloses' = Append(tCloses, caller)
    /\ IF tKind = "local"
       THEN Restore /\ UNCHANGED <<chSentClose, chCloseMsgs>>
       ELSE ChannelClose /\ UNCHANGED <<tTty, tRestores, tRawMode>>
    /\ UNCHANGED <<tKind, tIsTerminal, tOldState, tTerminal, tPrompt>>
    /\ UNCHANGED nonTmVars

NextTerm ==
    \/ TermMakeRaw
    \/ TermWrite
    \/ \E prompt \in Prompts : TermSetPrompt(prompt)
    \/ \E caller \in {"run", "transport"} : TermClose(caller)

SpecTerm == InitTerm /\ [][NextTerm]_vars

\* C24: every call of Terminal.Close after the first leaves the tty mode,
\* the raw-mode flag, the saved state, the term.Restore count and the
\* channel's close state and close messages as they were.
C24_CloseIdempotent ==
    [][(Len(tCloses') > Len(tCloses) /\ Len(tCloses) >= 1) =>
           UNCHANGED <<tRawMode, tOldState, tTerminal, tPrompt, tTty,
                       tRestores, chSentClose, chCloseMsgs>>]_vars

\* a raw local terminal was restored by Run's Close and the transport
\* closed it again
C24_Witness ==
    /\ tKind = "local" /\ tCloses = <<"run", "transport">>
    /\ tOldState = "cooked" /\ tTty = "cooked" /\ tRestores = 1

-----------------------------------------------------------------------------
(* base.Module.Execute: the menu loop shared by the option modules         *)

\* Options a provider's LoadOptions returns
MaxOptions == 3

LoadError == 0 - 1

InitModule ==
    /\ SessionIdle /\ MgrIdle /\ WriterIdle
    /\ ScreenIdle /\ PagerIdle /\ AuthIdle
    /\ StoreIdle /\ TermIdle /\ HighlightIdle /\ AuxIdle
    /\ ModuleIdle

\* Byte sequences typed at a module's menu
ModuleKeySeqs ==
    { <<13>>, <<27, 91, 65>>, <<27, 91, 66>>, <<113>>, <<81>>, <<49>>, <<50>>,
      <<57>>, <<120>>, <<3>>, <<NoByte>>, <<ReadErr>> }

\* Module.handleKey: the new selection, the number of the option it
\* executes (0 if none) and, when it executes none, its return value
handleKey(key, sel, n) ==
    IF key.name = "up"
    THEN [sel |-> IF sel - 1 < 0 THEN n - 1 ELSE sel - 1, exec |-> 0, cont |-> TRUE]
    ELSE IF key.name = "down"
    THEN [sel |-> IF sel + 1 >= n THEN 0 ELSE sel + 1, exec |-> 0, cont |-> TRUE]
    ELSE IF key.name = "enter"
    THEN [sel |-> sel, exec |-> sel + 1, cont |-> TRUE]
    ELSE IF key.name = "quit" \/ (key.name = "char" /\ key.ch \in {113, 81})
    THEN [sel |-> sel, exec |-> 0, cont |-> FALSE]
    ELSE IF key.name = "char" /\ key.ch \in 49..57 /\ key.ch - 48 <= n
    THEN [sel |-> sel, exec |-> key.ch - 48, cont |-> TRUE]
    ELSE [sel |-> sel, exec |-> 0, cont |-> TRUE]

\* a loop that goes on whatever the option returned
KeepLooping_Always(result) == TRUE

\* Execute: if !m.handleKey(...) { break }, for the value an option returned
KeepLooping(result) == result

\* Execute up to its first ReadKey; loaded is what LoadOptions returned
ModExecute(loaded) ==
    /\ mpc = "idle"
    /\ IF loaded = LoadError
       THEN /\ mpc' = "done" /\ mExit' = "load_error"
            /\ UNCHANGED <<mOptions, mCursor>>
       ELSE IF loaded = 0
       THEN /\ mpc' = "empty"
            /\ UNCHANGED <<mOptions, mCursor, mExit>>
       ELSE /\ mpc' = "loop"
            /\ mOptions' = loaded
            /\ mCursor' = "hide"
            /\ UNCHANGED mExit
    /\ UNCHANGED <<mSelected, mLastKey, mExecuted, mResult>>
    /\ UNCHANGED nonModVars

\* showEmptyMessage: its ReadKey returns (key or error), then return true
ModEmptyKey(bs) ==
    /\ mpc = "empty"
    /\ readKey(termKind, bs).used = Len(bs)
    /\ mpc' = "done" /\ mExit' = "no_options"
    /\ UNCHANGED <<mOptions, mSelected, mLastKey, mExecuted, mResult, mCursor>>
    /\ UNCHANGED nonModVars

\* one turn of the loop: ReadKey and handleKey, up to the call of the
\* option's Execute if there is one; renderMenu hides the cursor, the
\* write after the loop shows it
ModKey(bs) ==
    /\ mpc = "loop"
    /\ LET r == readKey(termKind, bs)
           h == handleKey(r.key, mSelected, mOptions)
       IN /\ r.used = Len(bs)
          /\ IF r.err
             THEN /\ mpc' = "done" /\ mExit' = "read_error"
                  /\ mCursor' = "show"
                  /\ mLastKey' = NoKey
                  /\ UNCHANGED <<mSelected, mExecuted, mResult>>
             ELSE /\ mLastKey' = r.key
                  /\ mSelected' = h.sel
                  /\ IF h.exec # 0
                     THEN /\ mpc' = "option"
                          /\ mExecuted' = h.exec
                          /\ mResult' = "none"
                          /\ UNCHANGED <<mCursor, mExit>>
                     ELSE IF h.cont
                     THEN /\ mCursor' = "hide"
                          /\ UNCHANGED <<mpc, mExecuted, mResult, mExit>>
                     ELSE /\ mpc' = "done" /\ mExit' = "quit"
                          /\ mCursor' = "show"
                          /\ UNCHANGED <<mExecuted, mResult>>
    /\ UNCHANGED mOptions
    /\ UNCHANGED nonModVars

\* the option's Execute returns result, which handleKey hands to the loop
ModOptionReturn(result) ==
    /\ mpc = "option"
    /\ mResult' = IF result THEN "true" ELSE "false"
    /\ IF KeepLooping(result)
       THEN /\ mpc' = "loop" /\ mCursor' = "hide"
            /\ UNCHANGED mExit
       ELSE /\ mpc' = "done" /\ mExit' = "option_false"
            /\ mCursor' = "show"
    /\ UNCHANGED <<mOptions, mSelected, mLastKey, mExecuted>>
    /\ UNCHANGED nonModVars

NextModule ==
    \/ \E loaded \in {LoadError} \cup 0..MaxOptions : ModExecute(loaded)
    \/ \E bs \in ModuleKeySeqs : ModEmptyKey(bs)
    \/ \E bs \in ModuleKeySeqs : ModKey(bs)
    \/ \E result \in BOOLEAN : ModOptionReturn(result)

SpecModule == InitModule /\ [][NextModule]_vars

\* C33: ENTER in the module loop executes the selected option, and after
\* an option's Execute the loop goes on if it returned true and the module
\* returns if it returned false.
C33_EnterExecutesSelected ==
    /\ [][(mpc = "loop" /\ mLastKey'.name = "enter") =>
             (mpc' = "option" /\ mExecuted' = mSelected + 1)]_vars
    /\ [][mpc = "option" =>
             /\ mResult' = "true" => mpc' = "loop"
             /\ mResult' = "false" => mpc' = "done"]_vars

\* the second option was selected, ENTER ran it, it returned false and the
\* module returned
C33_Witness ==
    /\ mpc = "done" /\ mExit = "option_false" /\ mLastKey.name = "enter"
    /\ mSelected = 1 /\ mExecuted = 2 /\ mResult = "false"

\* C34: when Module.Execute has returned, on whichever path, the last
\* cursor sequence it wrote is ShowCursor.
C34_CursorShownOnReturn == mpc = "done" => mCursor = "show"

-----------------------------------------------------------------------------
(* One row of a menu: highlightHotkey, calculateMaxWidth and               *)
(* ColorScheme.HighlightSelection, on the byte lengths of the strings      *)

\* Longest description, in bytes without colour codes
MaxDesc == 61

InitHighlight ==
    /\ SessionIdle /\ MgrIdle /\ WriterIdle
    /\ ScreenIdle /\ PagerIdle /\ AuthIdle
    /\ StoreIdle /\ TermIdle /\ ModuleIdle /\ AuxIdle
    /\ hpc = "idle"
    /\ hlLongest \in 0..MaxDesc
    /\ hlClean \in 0..hlLongest
    /\ hlHotkey \in (IF hlClean = 0 THEN {FALSE} ELSE BOOLEAN)
    /\ hlAccent \in BOOLEAN
    /\ hlSelected \in BOOLEAN
    /\ hlText = 0 /\ hlWidth = 0 /\ hlResult = NoRow_

\* len(Colorize(text, name)): the colour's code if the configured colour
\* has one, the text, the reset code
ColorizeLen(n, known) == (IF known THEN 5 ELSE 0) + n + 4

\* len(highlightHotkey(description, hotkey)): found says that the hotkey is
\* not empty and occurs in the description, whose one byte is colourized
highlightHotkey(n, found, accentKnown) ==
    IF found THEN (n - 1) + ColorizeLen(1, accentKnown) ELSE n

\* calculateMaxWidth, for the longest description without colour codes
calculateMaxWidth(longest) ==
    IF longest + 4 > 60 THEN 60 ELSE longest + 4

\* strings.Repeat(" ", cnt) panics on a negative count
RepeatLen(cnt) == IF cnt < 0 THEN Panic ELSE cnt

\* len of the string HighlightSelection colourizes, or Panic
HighlightSelection(n, selected, width) ==
    LET padding == IF width - n < 0 THEN 0 ELSE width - n
        spaces == RepeatLen(padding - 1)
    IN IF spaces = Panic THEN Panic ELSE 1 + n + spaces

\* RenderConfigMenu: the description of the item gets its hotkey colourized
HlHighlightHotkey ==
    /\ hpc = "idle"
    /\ hlText' = highlightHotkey(hlClean, hlHotkey, hlAccent)
    /\ hpc' = "described"
    /\ UNCHANGED <<hlClean, hlLongest, hlHotkey, hlAccent, hlSelected, hlWidth,
                   hlResult>>
    /\ UNCHANGED nonHlVars

\* renderMenu: the width of the menu
HlCalculateMaxWidth ==
    /\ hpc = "described"
    /\ hlWidth' = calculateMaxWidth(hlLongest)
    /\ hpc' = "measured"
    /\ UNCHANGED <<hlClean, hlLongest, hlHotkey, hlAccent, hlSelected, hlText,
                   hlResult>>
    /\ UNCHANGED nonHlVars

\* renderMenu: the row of the item
HlHighlightSelection ==
    /\ hpc = "measured"
    /\ hlResult' = HighlightSelection(hlText, hlSelected, hlWidth)
    /\ hpc' = "done"
    /\ UNCHANGED <<hlClean, hlLongest, hlHotkey, hlAccent, hlSelected, hlText,
                   hlWidth>>
    /\ UNCHANGED nonHlVars

NextHighlight ==
    \/ HlHighlightHotkey
    \/ HlCalculateMaxWidth
    \/ HlHighlightSelection

SpecHighlight == InitHighlight /\ [][NextHighlight]_vars

\* C37: rendering a menu row never panics: HighlightSelection returns a
\* string for every description and width, also when the description with
\* its colour codes is at least as long as the width of the menu.
C37_HighlightNeverPanics == hlResult # Panic

-----------------------------------------------------------------------------
(* One call of Session.readKey, on every short sequence of read results    *)

\* terminal.Read calls whose results are drawn
MaxReads == 3

\* What one terminal.Read can return: an error, no byte, or a byte
ReadResults == {ReadErr, NoByte, 13, 27, 91, 65, 66, 67, 68, 90, 113, 120}

ReadSeqs == UNION {[1..n -> ReadResults] : n \in 1..MaxReads}

InitKey ==
    /\ SessionIdle /\ MgrIdle /\ WriterIdle
    /\ ScreenIdle /\ PagerIdle /\ AuthIdle
    /\ StoreIdle /\ TermIdle /\ ModuleIdle /\ HighlightIdle
    /\ AcceptIdle /\ BarIdle
    /\ kpc = "idle"
    /\ kKind \in {"ssh", "local"}
    /\ kReads \in ReadSeqs
    /\ kResult = NoKey

\* readKey returns once the reads it makes have returned; kReads are the
\* results of exactly those reads
ReadKeyCall ==
    /\ kpc = "idle"
    /\ LET r == readKey(kKind, kReads) IN
         /\ r.used = Len(kReads)
         /\ kResult' = r.key
    /\ kpc' = "done"
    /\ UNCHANGED <<kKind, kReads>>
    /\ UNCHANGED nonKeyVars

NextKey == ReadKeyCall

SpecKey == InitKey /\ [][NextKey]_vars

-----------------------------------------------------------------------------
(* main: the goroutine that accepts connections, and the shutdown          *)

\* Connections accepted and lines logged that the model follows
MaxConns == 4
MaxLogs == 4

InitAccept ==
    /\ SessionIdle /\ MgrIdle /\ WriterIdle
    /\ ScreenIdle /\ PagerIdle /\ AuthIdle
    /\ StoreIdle /\ TermIdle /\ ModuleIdle /\ HighlightIdle
    /\ KeyIdle /\ BarIdle
    /\ AcceptIdle

\* listener.Accept returns a connection: go sshServer.HandleConnection(conn)
AcceptConn ==
    /\ ~aExited /\ ~lnClosed
    /\ aHandled < MaxConns
    /\ aHandled' = aHandled + 1
    /\ UNCHANGED <<lnClosed, aExited, aLogged, aAfterClose>>
    /\ UNCHANGED nonAccVars

\* listener.Accept of the open listener fails: log.Printf, continue
AcceptError ==
    /\ ~aExited /\ ~lnClosed
    /\ aLogged < MaxLogs
    /\ aLogged' = aLogged + 1
    /\ UNCHANGED <<lnClosed, aExited, aHandled, aAfterClose>>
    /\ UNCHANGED nonAccVars

\* listener.Accept of the closed listener fails ("use of closed network
\* connection"): the same branch, log.Printf, continue
AcceptClosed ==
    /\ ~aExited /\ lnClosed
    /\ aLogged < MaxLogs
    /\ aLogged' = aLogged + 1
    /\ aAfterClose' = aAfterClose + 1
    /\ UNCHANGED <<lnClosed, aExited, aHandled>>
    /\ UNCHANGED nonAccVars

\* main receives the signal and returns: the deferred listener.Close runs
Shutdown ==
    /\ ~lnClosed
    /\ lnClosed' = TRUE
    /\ UNCHANGED <<aExited, aHandled, aLogged, aAfterClose>>
    /\ UNCHANGED nonAccVars

\* the deferred db.Close has run and the process exits, which ends the
\* accepting goroutine
ProcessExit ==
    /\ lnClosed /\ ~aExited
    /\ aExited' = TRUE
    /\ UNCHANGED <<lnClosed, aHandled, aLogged, aAfterClose>>
    /\ UNCHANGED nonAccVars

NextAccept ==
    \/ AcceptConn
    \/ AcceptError
    \/ AcceptClosed
    \/ Shutdown
    \/ ProcessExit

SpecAccept == InitAccept /\ [][NextAccept]_vars

\* C39: the accept loop stops accepting once the listener has been closed:
\* the Accept that reports the close is the last one the loop makes, so
\* Accept returns at most once after the close.
C39_StopsOnceClosed == aAfterClose <= 1

-----------------------------------------------------------------------------
(* statusbar.StatusBar: New, SetActive and Render, on byte lengths         *)

\* Calls of Render the model follows, longest user name
MaxRenders == 3
MaxUserLen == 8

\* Line widths (max_line_length) and lengths of the system name
BarWidths == {40, 79, 80}
SysNameLens == {8, 30, 80}

\* statusbar.New: the bar is active
InitBar ==
    /\ SessionIdle /\ MgrIdle /\ WriterIdle
    /\ ScreenIdle /\ PagerIdle /\ AuthIdle
    /\ StoreIdle /\ TermIdle /\ ModuleIdle /\ HighlightIdle
    /\ KeyIdle /\ AcceptIdle
    /\ sbWidth \in BarWidths
    /\ sbUserLen \in 1..MaxUserLen
    /\ sbSysLen \in SysNameLens
    /\ sbActive = TRUE
    /\ sbRenders = <<>>

\* len(truncateString(s, maxLen)) for len(s) = n; s[:maxLen] panics on a
\* negative maxLen
truncateString(n, maxLen) ==
    IF n <= maxLen THEN n
    ELSE IF maxLen <= 3 THEN (IF maxLen < 0 THEN Panic ELSE maxLen)
    ELSE (maxLen - 3) + 3

\* a Render that paints the line whether the bar is active or not
RenderLen_IgnoresActive(active, width, userLen, sysLen) ==
    LET leftSection == 1 + userLen
        rightSection == 8 + 1
        padding == width - (leftSection + rightSection + sysLen)
    IN 4 + 5 + 5 + leftSection + 5 + sysLen + padding + 5 + rightSection + 4

\* len(StatusBar.Render()): the empty string for an inactive bar, else
\* clearLine, the colour codes, the three sections and their padding
RenderLen(active, width, userLen, sysLen) ==
    IF ~active THEN 0
    ELSE
      LET leftSection == 1 + userLen
          rightSection == 8 + 1
          fits == leftSection + rightSection + sysLen < width
          centerSection ==
              IF fits THEN sysLen
              ELSE truncateString(sysLen, width - leftSection - rightSection - 2)
          usedSpace == leftSection + rightSection + centerSection
          totalPadding == width - usedSpace
          leftPadding == totalPadding \div 2
          rightPadding == totalPadding - leftPadding
      IN IF centerSection = Panic \/ totalPadding < 0
         THEN Panic
         ELSE 4 + 5 + 5 + leftSection + RepeatLen(leftPadding) + 5
                + centerSection + RepeatLen(rightPadding) + 5
                + rightSection + 4

\* one call of Render
SbRender ==
    /\ Len(sbRenders) < MaxRenders
    /\ sbRenders' = Append(sbRenders,
          [active |-> sbActive,
           len |-> RenderLen(sbActive, sbWidth, sbUserLen, sbSysLen)])
    /\ UNCHANGED <<sbWidth, sbUserLen, sbSysLen, sbActive>>
    /\ UNCHANGED nonSbVars

\* StatusBar.SetActive
SetActive(active) ==
    /\ Len(sbRenders) < MaxRenders
    /\ sbActive' = active
    /\ UNCHANGED <<sbWidth, sbUserLen, sbSysLen, sbRenders>>
    /\ UNCHANGED nonSbVars

NextBar ==
    \/ SbRender
    \/ \E active \in BOOLEAN : SetActive(active)

SpecBar == InitBar /\ [][NextBar]_vars

\* C40: every Render of an active StatusBar returns a non-empty line and
\* every Render of an inactive one returns the empty string, also after
\* the bar was switched off and on again.
C40_RenderFollowsActive ==
    \A i \in 1..Len(sbRenders) :
        /\ sbRenders[i].active => sbRenders[i].len > 0
        /\ ~sbRenders[i].active => sbRenders[i].len = 0

\* rendered while active, while inactive, and after re-activation
C40_Witness ==
    /\ Len(sbRenders) = 3
    /\ sbRenders[1].active /\ sbRenders[1].len > 0
    /\ ~sbRenders[2].active /\ sbRenders[2].len = 0
    /\ sbRenders[3].active /\ sbRenders[3].len > 0
    /\ sbWidth = 79 /\ sbUserLen = 8 /\ sbSysLen = 8

====
